---- MODULE Spec2Model ----
(***************************************************************************)
(* WeldX: the analysis endpoints of server/routes.ts (POST /api/analyze    *)
(* and POST /api/analyze-fallback), the two detection generators, the      *)
(* summary computation, the response assembly and the history store of     *)
(* server/storage.ts.                                                      *)
(*                                                                         *)
(* One behaviour follows one request from its arrival to its response.     *)
(* pc is the position of the request in its handler.  The synchronous      *)
(* generator is split at its Math.random() calls so that every outcome of  *)
(* a draw is a separate successor state.                                   *)
(*                                                                         *)
(* Numbers.  Math.random() yields r = k / RandDen with k in Draws, so      *)
(* 0 <= r < 1.  A confidence c is kept as the integer c * ConfScale.       *)
(* Pixel coordinates are integers (the code floors them); a center         *)
(* coordinate is kept in half pixels (CenterScale), because                *)
(* bbox.width / 2 may be a half.  Arithmetic is exact (no IEEE rounding).  *)
(***************************************************************************)
EXTENDS Integers, Sequences, FiniteSets, TLC

\* resolution of a random draw: r = k / RandDen
RandDen == 1000

\* the draws the model enumerates: the smallest and the largest value of
\* Math.random() at this resolution
Draws == {0, RandDen - 1}

\* one percent of a confidence of 1.0
ConfUnit == RandDen

\* confidence 1.0
ConfScale == 100 * ConfUnit

\* center coordinates are kept in units of 1/CenterScale pixel
CenterScale == 2

\* probabilities are kept in units of 1/ProbScale
ProbScale == 100 * 100

----------------------------------------------------------------------------
(* Requests *)

JpegSmall == [originalname |-> [stem |-> "weld", ext |-> "jpg"],
              mimetype |-> <<"image", "jpeg">>, size |-> 3000000]

JpegHuge  == [originalname |-> [stem |-> "weld", ext |-> "jpg"],
              mimetype |-> <<"image", "jpeg">>, size |-> 10485761]

DicomByName == [originalname |-> [stem |-> "scan", ext |-> "DCM"],
                mimetype |-> <<"application", "x-dicom">>, size |-> 10485760]

TextFile  == [originalname |-> [stem |-> "notes", ext |-> "txt"],
              mimetype |-> <<"text", "plain">>, size |-> 1200]

\* the multipart field 'image' of a request: absent (<<>>) or one file
Uploads == {<<>>, <<JpegSmall>>, <<JpegHuge>>, <<DicomByName>>, <<TextFile>>}

\* form fields of the request body; "" is an absent (or empty) field
Bodies == [imageMode : {"", "normal"},
           enhancementMode : {"", "clahe", "advanced"},
           saveToDataset : {"", "true"},
           confidenceThreshold : {"", "0", "0.9", "1.0", "1.5"}]

----------------------------------------------------------------------------
(* Pure helpers of routes.ts *)

ToLowerCase(s) ==
    CASE s = "DCM" -> "dcm"
      [] OTHER -> s

ToUpperCase(s) ==
    CASE s = "jpeg" -> "JPEG"
      [] s = "png" -> "PNG"
      [] s = "x-dicom" -> "X-DICOM"
      [] s = "plain" -> "PLAIN"
      [] OTHER -> s

allowedTypes == {<<"image", "jpeg">>, <<"image", "png">>, <<"image", "jpg">>,
                 <<"application", "dicom">>, <<"application", "octet-stream">>}

maxSize == 10 * 1024 * 1024

validateImageFileTypeOnly(file) ==
    file.size <= maxSize

validateImageFile(file) ==
    LET isValidType == \/ file.mimetype \in allowedTypes
                       \/ ToLowerCase(file.originalname.ext) = "dcm"
    IN  isValidType /\ file.size <= maxSize

fileSizeLimit == 10 * 1024 * 1024

\* parseFloat of a form field: <<>> is NaN, <<v>> the number v (ConfScale units)
ParseFloat(s) ==
    CASE s = "0"   -> <<0>>
      [] s = "0.9" -> <<90 * ConfUnit>>
      [] s = "1.0" -> <<100 * ConfUnit>>
      [] s = "1.5" -> <<150 * ConfUnit>>
      [] OTHER     -> <<>>

\* v || d for a number v: NaN and 0 are falsy
NumberOr(v, d) == IF v = <<>> \/ v = <<0>> THEN d ELSE v[1]

\* s || d for a string s: the empty (or absent) string is falsy
StringOr(s, d) == IF s = "" THEN d ELSE s

imageModeOf(body) == StringOr(body.imageMode, "xray")

enhancementModeOf(body) == StringOr(body.enhancementMode, "none")

saveToDatasetOf(body) == body.saveToDataset = "true"

confidenceThresholdOf(body) ==
    NumberOr(ParseFloat(body.confidenceThreshold), 50 * ConfUnit)

\* Math.floor(n * (base + r * span)), base and span in percent, r = k / RandDen
FloorScaled(n, basePct, spanPct, k) ==
    (n * (basePct * RandDen + spanPct * k)) \div (100 * RandDen)

\* base + r * span as a confidence, base and span in percent
Sample(basePct, spanPct, k) == basePct * ConfUnit + spanPct * k

BelowAlways(k, p) == TRUE

\* Math.random() < p, p in units of 1/ProbScale
Below(k, p) == k * ProbScale < p * RandDen

MaxSecond(a, b) == b

\* Math.max(a, b)
Max(a, b) == IF a >= b THEN a ELSE b

\* Math.floor(Math.random() * n)
RandomInt(n, k) == (n * k) \div RandDen

----------------------------------------------------------------------------
(* The detection generators *)

\* the five Math.random() calls that build one detection: one for the
\* confidence and one for each of x, y, width and height of the box.  The
\* model enumerates the tuples in which all five are smallest or all five
\* are largest, which are the extremes of every sum and comparison below
DrawTuples == {[conf |-> d, x |-> d, y |-> d, w |-> d, h |-> d] : d \in Draws}

isXray(imageMode) == imageMode = "xray"

hasEnhancement(enhancementMode) ==
    enhancementMode = "clahe" \/ enhancementMode = "advanced"

crackProb(imageMode, enhancementMode) ==
    LET base == IF isXray(imageMode) THEN 4500 ELSE 2500
    IN  IF hasEnhancement(enhancementMode) THEN (base * 120) \div 100 ELSE base

porosityProb(imageMode, enhancementMode) ==
    LET base == IF isXray(imageMode) THEN 6000 ELSE 3500
    IN  IF hasEnhancement(enhancementMode) THEN (base * 115) \div 100 ELSE base

slagProb(imageMode, enhancementMode) ==
    LET base == IF isXray(imageMode) THEN 3500 ELSE 1500
    IN  IF hasEnhancement(enhancementMode) THEN (base * 110) \div 100 ELSE base

\* the outer gate of both generators: Math.random() < 0.85
gateProb == 8500

EnhancedCrackWide(width, height, confidenceThreshold, t) ==
    [class |-> "crack",
     confidence |-> Max(confidenceThreshold, Sample(80, 15, t.conf)),
     bbox |-> [x |-> FloorScaled(width, 20, 80, t.x),
               y |-> FloorScaled(height, 30, 40, t.y),
               width |-> FloorScaled(width, 15, 10, t.w),
               height |-> FloorScaled(height, 8, 5, t.h)]]

EnhancedCrack(width, height, confidenceThreshold, t) ==
    [class |-> "crack",
     confidence |-> Max(confidenceThreshold, Sample(80, 15, t.conf)),
     bbox |-> [x |-> FloorScaled(width, 20, 40, t.x),
               y |-> FloorScaled(height, 30, 40, t.y),
               width |-> FloorScaled(width, 15, 10, t.w),
               height |-> FloorScaled(height, 8, 5, t.h)]]

EnhancedPorosity(width, height, confidenceThreshold, t) ==
    [class |-> "porosity",
     confidence |-> Max(confidenceThreshold, Sample(70, 20, t.conf)),
     bbox |-> [x |-> FloorScaled(width, 20, 50, t.x),
               y |-> FloorScaled(height, 15, 60, t.y),
               width |-> FloorScaled(width, 4, 4, t.w),
               height |-> FloorScaled(height, 4, 4, t.h)]]

EnhancedSlagHigh(width, height, confidenceThreshold, t) ==
    [class |-> "slag",
     confidence |-> Max(confidenceThreshold, Sample(65, 40, t.conf)),
     bbox |-> [x |-> FloorScaled(width, 20, 50, t.x),
               y |-> FloorScaled(height, 15, 60, t.y),
               width |-> FloorScaled(width, 6, 5, t.w),
               height |-> FloorScaled(height, 3, 3, t.h)]]

EnhancedSlag(width, height, confidenceThreshold, t) ==
    [class |-> "slag",
     confidence |-> Max(confidenceThreshold, Sample(65, 20, t.conf)),
     bbox |-> [x |-> FloorScaled(width, 20, 50, t.x),
               y |-> FloorScaled(height, 15, 60, t.y),
               width |-> FloorScaled(width, 6, 5, t.w),
               height |-> FloorScaled(height, 3, 3, t.h)]]

EnhancedPorosityCountFour(enhancementMode, k) == 1 + RandomInt(4, k)

\* count of porosity instances of generateEnhancedDetections
EnhancedPorosityCount(enhancementMode, k) ==
    IF hasEnhancement(enhancementMode) THEN 1 + RandomInt(3, k)
                                       ELSE 1 + RandomInt(2, k)

FilterByThresholdBelow(dets, confidenceThreshold) ==
    SelectSeq(dets, LAMBDA d : d.confidence <= confidenceThreshold)

FilterByThresholdStrict(dets, confidenceThreshold) ==
    SelectSeq(dets, LAMBDA d : d.confidence > confidenceThreshold)

\* detections.filter(d => d.confidence >= confidenceThreshold)
FilterByThreshold(dets, confidenceThreshold) ==
    SelectSeq(dets, LAMBDA d : d.confidence >= confidenceThreshold)

SimulatedCrack(width, height, t) ==
    [class |-> "crack",
     confidence |-> Sample(85, 10, t.conf),
     bbox |-> [x |-> FloorScaled(width, 20, 40, t.x),
               y |-> FloorScaled(height, 30, 40, t.y),
               width |-> FloorScaled(width, 15, 10, t.w),
               height |-> FloorScaled(height, 8, 5, t.h)]]

SimulatedPorosity(width, height, t) ==
    [class |-> "porosity",
     confidence |-> Sample(75, 15, t.conf),
     bbox |-> [x |-> FloorScaled(width, 20, 50, t.x),
               y |-> FloorScaled(height, 15, 60, t.y),
               width |-> FloorScaled(width, 4, 4, t.w),
               height |-> FloorScaled(height, 4, 4, t.h)]]

SimulatedSlag(width, height, t) ==
    [class |-> "slag",
     confidence |-> Sample(70, 15, t.conf),
     bbox |-> [x |-> FloorScaled(width, 20, 50, t.x),
               y |-> FloorScaled(height, 15, 60, t.y),
               width |-> FloorScaled(width, 6, 5, t.w),
               height |-> FloorScaled(height, 3, 3, t.h)]]

\* count of porosity instances of generateSimulatedDetections
SimulatedPorosityCount(width, height, k) ==
    LET hasHighRes == width > 1000 \/ height > 1000
    IN  IF hasHighRes THEN 1 + RandomInt(2, k) ELSE 1

----------------------------------------------------------------------------
(* Summary statistics and response assembly *)

RECURSIVE CountTypesOnce(_, _, _)
CountTypesOnce(dets, i, acc) ==
    IF i > Len(dets) THEN acc
    ELSE LET c == dets[i].class
         IN  CountTypesOnce(dets, i + 1,
                 [k \in DOMAIN acc \cup {c} |-> IF k = c THEN 1 ELSE acc[k]])

\* defectTypes[detection.class] = (defectTypes[detection.class] || 0) + 1
RECURSIVE CountTypes(_, _, _)
CountTypes(dets, i, acc) ==
    IF i > Len(dets) THEN acc
    ELSE LET c == dets[i].class
             n == IF c \in DOMAIN acc THEN acc[c] ELSE 0
         IN  CountTypes(dets, i + 1,
                 [k \in DOMAIN acc \cup {c} |-> IF k = c THEN n + 1 ELSE acc[k]])

\* totalConfidence += detection.confidence
RECURSIVE TotalConfidence(_, _)
TotalConfidence(dets, i) ==
    IF i > Len(dets) THEN 0
    ELSE dets[i].confidence + TotalConfidence(dets, i + 1)

\* a quotient num / den of confidences; den = 0 is NaN
AverageConfidenceUnguarded(total, n) == [num |-> total, den |-> n]

\* detections.length > 0 ? totalConfidence / detections.length : 0
AverageConfidence(total, n) ==
    IF n > 0 THEN [num |-> total, den |-> n] ELSE [num |-> 0, den |-> 1]

CenterOfCorner(bbox) ==
    [x |-> CenterScale * bbox.x + CenterScale * bbox.width,
     y |-> CenterScale * bbox.y + CenterScale * bbox.height]

\* center: {x: bbox.x + bbox.width / 2, y: bbox.y + bbox.height / 2}
CenterOf(bbox) ==
    [x |-> CenterScale * bbox.x + bbox.width,
     y |-> CenterScale * bbox.y + bbox.height]

\* detections.map(d => ({...d, center: ...}))
WithCenters(dets) ==
    [i \in 1..Len(dets) |->
        [class |-> dets[i].class, confidence |-> dets[i].confidence,
         bbox |-> dets[i].bbox, center |-> CenterOf(dets[i].bbox)]]

Summary(dets, processingTime) ==
    [total_defects |-> Len(dets),
     defect_types |-> CountTypes(dets, 1, [k \in {} |-> 0]),
     average_confidence |-> AverageConfidence(TotalConfidence(dets, 1), Len(dets)),
     processing_time |-> processingTime]

AnalyzeMessage(enhancementMode) ==
    IF enhancementMode = "clahe"
    THEN "Analysis completed successfully with CLAHE enhancement"
    ELSE "Analysis completed successfully"

\* the response object of POST /api/analyze
AnalyzeResponse(info, dets, enhancementMode, processingTime) ==
    [success |-> TRUE,
     message |-> AnalyzeMessage(enhancementMode),
     image_info |-> info,
     detections |-> WithCenters(dets),
     summary |-> Summary(dets, processingTime)]

\* the response object of POST /api/analyze-fallback
FallbackResponse(info, dets, processingTime) ==
    [success |-> TRUE,
     message |-> "Analysis completed successfully",
     image_info |-> info,
     detections |-> WithCenters(dets),
     summary |-> Summary(dets, processingTime)]

\* the body of the catch blocks of both handlers
FailureBody(errorMessage) ==
    [success |-> FALSE, message |-> <<"Analysis failed: ", errorMessage>>]

insertValuesTwice(table, row) == Append(Append(table, row), row)

\* await db.insert(table).values(row), resolved: the table gains the row
insertValues(table, row) == Append(table, row)

\* the row PostgresStorage.saveAnalysisResult inserts into analysisResults
AnalysisRow(result, imageType, claheApplied) ==
    [filename |-> result.image_info.filename,
     imageType |-> imageType,
     detections |-> [i \in 1..Len(result.detections) |->
                        [class |-> result.detections[i].class,
                         confidence |-> result.detections[i].confidence,
                         bbox |-> result.detections[i].bbox,
                         center |-> result.detections[i].center]],
     summary |-> result.summary,
     imageInfo |-> result.image_info,
     claheApplied |-> claheApplied,
     processingMode |-> "standard"]

----------------------------------------------------------------------------
(* Training dataset (saveToTrainingDataset) *)

\* round(num / den) to the nearest integer, as toFixed rounds
RoundDiv(num, den) == (2 * num + den) \div (2 * den)

\* one YOLO label line; the four coordinates are the toFixed(6) values in
\* millionths (1000000 / 2048 = 15625 / 32 and 1000000 / 1536 = 15625 / 24)
YoloLabel(detection) ==
    LET classId == IF detection.class = "crack" THEN 0
                   ELSE IF detection.class = "porosity" THEN 1 ELSE 2
    IN  [classId |-> classId,
         centerX |-> RoundDiv((2 * detection.bbox.x + detection.bbox.width) * 15625, 32),
         centerY |-> RoundDiv((2 * detection.bbox.y + detection.bbox.height) * 15625, 24),
         width   |-> RoundDiv(detection.bbox.width * 15625, 16),
         height  |-> RoundDiv(detection.bbox.height * 15625, 12)]

TrainingRow(detection, filename, imageMode, originalPath, imagePath, labelPath) ==
    [filename |-> filename,
     labelType |-> detection.class,
     bbox |-> detection.bbox,
     confidence |-> detection.confidence,
     imageType |-> imageMode,
     savedToDataset |-> TRUE,
     originalPath |-> originalPath,
     datasetPath |-> imagePath,
     labelPath |-> labelPath]

----------------------------------------------------------------------------
(* State *)

VARIABLES
    pc,             \* position of the request in its handler
    req,            \* the request: endpoint, the upload sent, req.file, req.body
    now,            \* Date.now()
    startTime,      \* the handler's startTime
    imageInfo,      \* the handler's imageInfo, <<>> before it is built
    generated,      \* the generator's local array `detections`
    remaining,      \* porosity instances still to generate (the for loop)
    detections,     \* the handler's `detections` (what the generator returned)
    pending,        \* the handler's `response` object, <<>> before it is built
    response,       \* what was sent to the caller, <<>> before that
    uploads,        \* files written to uploads/
    history,        \* rows of the analysisResults table, oldest first
    datasetFiles,   \* files written to dataset/images/train and dataset/labels/train
    trainingImages, \* rows of the trainingImages table
    log,            \* console.error output
    input,          \* arguments handed to a pure function, <<>> when unused
    output,         \* what the pure function returned for input, <<>> before
    client,         \* the browser page: Home's state and ProcessingModal's processImage
    answered,       \* the analyses answered with success = true, oldest first
    listed,         \* the body of the last answer of GET /api/history, <<>> before
    workers,        \* the /api/analyze requests in flight side by side
    disk,           \* the files the requests in flight wrote: path -> contents
    users,          \* rows of the users table, oldest first
    sessions,       \* rows of the sessions table, oldest first
    models,         \* rows of the models table, oldest first
    isTraining,     \* TrainingPanel's isTraining
    trainingProgress, \* TrainingPanel's trainingProgress, in units of 1/ProgressScale
    replies         \* the answers given so far: request and status, oldest first

vars == <<pc, req, now, startTime, imageInfo, generated, remaining, detections, pending,
          response, uploads, history, datasetFiles, trainingImages, log,
          input, output, client, answered, listed, workers, disk,
          users, sessions, models, isTraining, trainingProgress, replies>>

locals == <<startTime, imageInfo, generated, remaining, detections, pending>>

stores == <<uploads, history, datasetFiles, trainingImages>>

\* the state no request handler of routes.ts touches
\* the state of the request handlers of routes.ts
handlerVars == <<pc, req, now, locals, response, stores, log>>

\* what the views of several requests add to the server's state
serviceVars == <<answered, listed, workers, disk>>

\* accounts, sessions, models, the training panel and the answers given
adminVars == <<users, sessions, models, isTraining, trainingProgress, replies>>

others == <<input, adminVars, output, client, serviceVars>>

\* the server after registerRoutes, before any request
HandlerInit ==
    /\ pc = "idle"
    /\ req = [endpoint |-> "", upload |-> <<>>, file |-> <<>>,
              body |-> [imageMode |-> "", enhancementMode |-> "",
                        saveToDataset |-> "", confidenceThreshold |-> ""]]
    /\ now = 0
    /\ startTime = 0
    /\ imageInfo = <<>>
    /\ generated = <<>>
    /\ remaining = 0
    /\ detections = <<>>
    /\ pending = <<>>
    /\ response = <<>>
    /\ uploads = {}
    /\ history = <<>>
    /\ datasetFiles = {}
    /\ trainingImages = <<>>
    /\ log = {}

\* the page as Home and ProcessingModal mount it (their useState defaults)
ClientInit ==
    [isProcessing |-> FALSE, uploadedFile |-> <<>>, analysisResult |-> <<>>,
     progress |-> 0, status |-> "Initializing...", pc |-> "closed",
     contacted |-> <<>>, response |-> <<>>, lastError |-> <<>>, result |-> <<>>,
     toasts |-> <<>>]

\* no request has been answered, none is in flight, uploads/ is empty
\* bcrypt.hash and bcrypt.compare: the hash is kept as a tagged password
bcryptHash(password) == <<"bcrypt", password>>

bcryptCompare(password, hash) == hash = bcryptHash(password)

\* createDemoUser has run; no session, no model, the training panel idle
AdminInit ==
    /\ users = <<[id |-> 1, username |-> "demo", email |-> "demo@example.com",
                  password |-> bcryptHash("demo123"), role |-> "admin"]>>
    /\ sessions = <<>>
    /\ models = <<>>
    /\ isTraining = FALSE
    /\ trainingProgress = 0
    /\ replies = <<>>

ServiceInit == answered = <<>> /\ listed = <<>> /\ workers = <<>> /\ disk = <<>>

Init ==
    /\ HandlerInit
    /\ ServiceInit
    /\ input = <<>>
    /\ output = <<>>
    /\ client = ClientInit
    /\ AdminInit

----------------------------------------------------------------------------
(* POST /api/analyze *)

\* multer's upload.single('image'): fileFilter keeps the file that
\* validateImageFile accepts and skips every other one
upload(sent) ==
    IF sent # <<>> /\ validateImageFile(sent[1]) THEN sent ELSE <<>>

\* path.join('uploads', `${timestamp}_${req.file.originalname}`)
originalPathOf(timestamp, file) ==
    [dir |-> "uploads", timestamp |-> timestamp, name |-> file.originalname]

\* the request passes multer and enters the handler, which answers 400
\* without a file and otherwise starts writing the upload
AnalyzeReceive ==
    /\ pc = "idle"
    /\ \E sent \in Uploads, body \in Bodies :
         LET file == upload(sent)
         IN  /\ req' = [endpoint |-> "/api/analyze", upload |-> sent,
                        file |-> file, body |-> body]
             /\ startTime' = now
             /\ IF file # <<>> /\ file[1].size > fileSizeLimit
                THEN \* MulterError LIMIT_FILE_SIZE goes to next(err): the
                     \* handler does not run and routes.ts sends nothing
                     /\ pc' = "next_err"
                     /\ UNCHANGED response
                ELSE IF file = <<>>
                THEN /\ response' = <<[status |-> 400,
                                       body |-> [success |-> FALSE,
                                                 message |-> "No image file uploaded"]]>>
                     /\ pc' = "done"
                ELSE /\ pc' = "writeFile"
                     /\ UNCHANGED response
    /\ UNCHANGED <<now, imageInfo, generated, remaining, detections, pending,
                   stores, log>>
    /\ UNCHANGED others

\* await fs.promises.writeFile(originalPath, req.file.buffer) settles
AnalyzeWriteFile ==
    /\ pc = "writeFile"
    /\ \E ok \in BOOLEAN :
         IF ok
         THEN /\ uploads' = uploads \cup {originalPathOf(now, req.file[1])}
              /\ pc' = "imageInfo"
              /\ UNCHANGED <<response, log>>
         ELSE /\ log' = log \cup {"Analysis failed:"}
              /\ response' = <<[status |-> 500, body |-> FailureBody("writeFile")]>>
              /\ pc' = "done"
              /\ UNCHANGED uploads
    /\ UNCHANGED <<req, now, locals, history, datasetFiles, trainingImages>>
    /\ UNCHANGED others

AnalyzeImageInfo ==
    /\ pc = "imageInfo"
    /\ \E kw \in Draws, kh \in Draws :
         imageInfo' = <<[filename |-> req.file[1].originalname,
                         width |-> 1024 + RandomInt(512, kw),
                         height |-> 768 + RandomInt(384, kh),
                         format |-> ToUpperCase(req.file[1].mimetype[2]),
                         size_bytes |-> req.file[1].size]>>
    /\ pc' = "gate"
    /\ UNCHANGED <<req, now, startTime, generated, remaining, detections, pending,
                   response, stores, log>>
    /\ UNCHANGED others

\* generateEnhancedDetections: if (Math.random() < 0.85)
EnhancedGate ==
    /\ pc = "gate"
    /\ \E k \in Draws :
         pc' = IF Below(k, gateProb) THEN "crack" ELSE "return"
    /\ UNCHANGED <<req, now, locals, response, stores, log>>
    /\ UNCHANGED others

EnhancedCrackStep ==
    /\ pc = "crack"
    /\ \E k \in Draws, t \in DrawTuples :
         generated' =
            IF Below(k, crackProb(imageModeOf(req.body), enhancementModeOf(req.body)))
            THEN Append(generated,
                        EnhancedCrack(imageInfo[1].width, imageInfo[1].height,
                                      confidenceThresholdOf(req.body), t))
            ELSE generated
    /\ pc' = "porosity"
    /\ UNCHANGED <<req, now, startTime, imageInfo, remaining, detections, pending,
                   response, stores, log>>
    /\ UNCHANGED others

EnhancedPorosityStep ==
    /\ pc = "porosity"
    /\ \E k \in Draws, kc \in Draws :
         IF Below(k, porosityProb(imageModeOf(req.body), enhancementModeOf(req.body)))
         THEN /\ remaining' = EnhancedPorosityCount(enhancementModeOf(req.body), kc)
              /\ pc' = "porosityLoop"
         ELSE /\ remaining' = 0
              /\ pc' = "slag"
    /\ UNCHANGED <<req, now, startTime, imageInfo, generated, detections, pending,
                   response, stores, log>>
    /\ UNCHANGED others

EnhancedPorosityInstance ==
    /\ pc = "porosityLoop"
    /\ \E t \in DrawTuples :
         generated' = Append(generated,
                             EnhancedPorosity(imageInfo[1].width, imageInfo[1].height,
                                              confidenceThresholdOf(req.body), t))
    /\ remaining' = remaining - 1
    /\ pc' = IF remaining > 1 THEN "porosityLoop" ELSE "slag"
    /\ UNCHANGED <<req, now, startTime, imageInfo, detections, pending, response, stores, log>>
    /\ UNCHANGED others

EnhancedSlagStep ==
    /\ pc = "slag"
    /\ \E k \in Draws, t \in DrawTuples :
         generated' =
            IF Below(k, slagProb(imageModeOf(req.body), enhancementModeOf(req.body)))
            THEN Append(generated,
                        EnhancedSlag(imageInfo[1].width, imageInfo[1].height,
                                     confidenceThresholdOf(req.body), t))
            ELSE generated
    /\ pc' = "return"
    /\ UNCHANGED <<req, now, startTime, imageInfo, remaining, detections, pending,
                   response, stores, log>>
    /\ UNCHANGED others

\* the generator returns the filtered array; the handler computes the
\* summary, builds the response object and calls storage.saveAnalysisResult
AnalyzeAssemble ==
    /\ pc = "return"
    /\ LET dets == FilterByThreshold(generated, confidenceThresholdOf(req.body))
       IN  /\ detections' = dets
           /\ pending' = <<AnalyzeResponse(imageInfo[1], dets,
                                           enhancementModeOf(req.body), now - startTime)>>
    /\ pc' = "save"
    /\ UNCHANGED <<req, now, startTime, imageInfo, generated, remaining, response, stores, log>>
    /\ UNCHANGED others

\* await storage.saveAnalysisResult(response, imageMode, enhancementMode === 'clahe')
\* settles: the row is inserted, or the insert throws and the handler's
\* catch answers 500; without saveToDataset the response is sent at once
AnalyzeSave ==
    /\ pc = "save"
    /\ \E ok \in BOOLEAN :
         IF ok
         THEN /\ history' = insertValues(history,
                                   AnalysisRow(pending[1], imageModeOf(req.body),
                                               enhancementModeOf(req.body) = "clahe"))
              /\ IF saveToDatasetOf(req.body)
                 THEN pc' = "dataset" /\ UNCHANGED response
                 ELSE pc' = "done" /\ response' = <<[status |-> 200, body |-> pending[1]]>>
              /\ UNCHANGED log
         ELSE /\ log' = log \cup {"Database insert error:", "Analysis failed:"}
              /\ response' = <<[status |-> 500, body |-> FailureBody("insert")]>>
              /\ pc' = "done"
              /\ UNCHANGED history
    /\ UNCHANGED <<req, now, locals, uploads, datasetFiles, trainingImages>>
    /\ UNCHANGED others

\* await saveToTrainingDataset(req.file, detections, imageMode, originalPath),
\* which catches its own errors, and then res.json(response).
\* stage is the step that throws: the image write, the label write, or the
\* row insert after `inserted` rows (none throws when inserted = all rows)
AnalyzeDataset ==
    /\ pc = "dataset"
    /\ \E stage \in {"image", "label", "rows"}, inserted \in 0..Len(detections) :
         LET file == req.file[1]
             imagePath == [dir |-> "dataset/images/train", timestamp |-> now,
                           name |-> file.originalname]
             labelPath == [dir |-> "dataset/labels/train", timestamp |-> now,
                           name |-> [stem |-> file.originalname.stem, ext |-> "txt"]]
             filename  == [timestamp |-> now, name |-> file.originalname]
             yoloLabels == [i \in 1..Len(detections) |-> YoloLabel(detections[i])]
             image == [path |-> imagePath, content |-> <<"buffer">>]
             label == [path |-> labelPath, content |-> yoloLabels]
             rows  == [i \in 1..inserted |->
                          TrainingRow(detections[i], filename, imageModeOf(req.body),
                                      originalPathOf(now, file), imagePath, labelPath)]
         IN  /\ datasetFiles' = CASE stage = "image" -> datasetFiles
                                  [] stage = "label" -> datasetFiles \cup {image}
                                  [] OTHER -> datasetFiles \cup {image, label}
             /\ trainingImages' = IF stage = "rows" THEN trainingImages \o rows
                                  ELSE trainingImages
             /\ log' = IF stage = "rows" /\ inserted = Len(detections) THEN log
                       ELSE log \cup {"Failed to save to training dataset:"}
    /\ response' = <<[status |-> 200, body |-> pending[1]]>>
    /\ pc' = "done"
    /\ UNCHANGED <<req, now, locals, uploads, history>>
    /\ UNCHANGED others

----------------------------------------------------------------------------
(* POST /api/analyze-fallback *)

\* the handler builds imageInfo and enters generateSimulatedDetections
FallbackReceive ==
    /\ pc = "idle"
    /\ req' = [endpoint |-> "/api/analyze-fallback", upload |-> <<>>, file |-> <<>>,
               body |-> req.body]
    /\ startTime' = now
    /\ \E kw \in Draws, kh \in Draws, ks \in Draws :
         imageInfo' = <<[filename |-> [stem |-> "welding_xray", ext |-> "jpg"],
                         width |-> 1024 + RandomInt(512, kw),
                         height |-> 768 + RandomInt(384, kh),
                         format |-> "JPEG",
                         size_bytes |-> 1500000 + RandomInt(2000000, ks)]>>
    /\ pc' = "simGate"
    /\ UNCHANGED <<now, generated, remaining, detections, pending, response,
                   stores, log>>
    /\ UNCHANGED others

\* generateSimulatedDetections: if (Math.random() < 0.85)
SimulatedGate ==
    /\ pc = "simGate"
    /\ \E k \in Draws :
         pc' = IF Below(k, gateProb) THEN "simCrack" ELSE "simReturn"
    /\ UNCHANGED <<req, now, locals, response, stores, log>>
    /\ UNCHANGED others

SimulatedCrackStep ==
    /\ pc = "simCrack"
    /\ \E k \in Draws, t \in DrawTuples :
         generated' = IF Below(k, 4500)
                      THEN Append(generated,
                                  SimulatedCrack(imageInfo[1].width, imageInfo[1].height, t))
                      ELSE generated
    /\ pc' = "simPorosity"
    /\ UNCHANGED <<req, now, startTime, imageInfo, remaining, detections, pending,
                   response, stores, log>>
    /\ UNCHANGED others

SimulatedPorosityStep ==
    /\ pc = "simPorosity"
    /\ \E k \in Draws, kc \in Draws :
         IF Below(k, 6000)
         THEN /\ remaining' = SimulatedPorosityCount(imageInfo[1].width,
                                                     imageInfo[1].height, kc)
              /\ pc' = "simPorosityLoop"
         ELSE /\ remaining' = 0
              /\ pc' = "simSlag"
    /\ UNCHANGED <<req, now, startTime, imageInfo, generated, detections, pending,
                   response, stores, log>>
    /\ UNCHANGED others

SimulatedPorosityInstance ==
    /\ pc = "simPorosityLoop"
    /\ \E t \in DrawTuples :
         generated' = Append(generated,
                             SimulatedPorosity(imageInfo[1].width, imageInfo[1].height, t))
    /\ remaining' = remaining - 1
    /\ pc' = IF remaining > 1 THEN "simPorosityLoop" ELSE "simSlag"
    /\ UNCHANGED <<req, now, startTime, imageInfo, detections, pending, response,
                   stores, log>>
    /\ UNCHANGED others

SimulatedSlagStep ==
    /\ pc = "simSlag"
    /\ \E k \in Draws, t \in DrawTuples :
         generated' = IF Below(k, 3500)
                      THEN Append(generated,
                                  SimulatedSlag(imageInfo[1].width, imageInfo[1].height, t))
                      ELSE generated
    /\ pc' = "simReturn"
    /\ UNCHANGED <<req, now, startTime, imageInfo, remaining, detections, pending,
                   response, stores, log>>
    /\ UNCHANGED others

\* the generator returns its array unfiltered; the handler computes the
\* summary, builds the response object and calls storage.saveAnalysisResult
FallbackAssemble ==
    /\ pc = "simReturn"
    /\ detections' = generated
    /\ pending' = <<FallbackResponse(imageInfo[1], generated, now - startTime)>>
    /\ pc' = "simSave"
    /\ UNCHANGED <<req, now, startTime, imageInfo, generated, remaining, response,
                   stores, log>>
    /\ UNCHANGED others

\* await storage.saveAnalysisResult(response) settles (imageType is not
\* passed, claheApplied defaults to false), then res.json(response)
FallbackSave ==
    /\ pc = "simSave"
    /\ \E ok \in BOOLEAN :
         IF ok
         THEN /\ history' = insertValues(history, AnalysisRow(pending[1], "undefined", FALSE))
              /\ response' = <<[status |-> 200, body |-> pending[1]]>>
              /\ UNCHANGED log
         ELSE /\ log' = log \cup {"Database insert error:", "Fallback analysis failed:"}
              /\ response' = <<[status |-> 500, body |-> FailureBody("insert")]>>
              /\ UNCHANGED history
    /\ pc' = "done"
    /\ UNCHANGED <<req, now, locals, uploads, datasetFiles, trainingImages>>
    /\ UNCHANGED others

----------------------------------------------------------------------------

Next ==
    \/ AnalyzeReceive
    \/ AnalyzeWriteFile
    \/ AnalyzeImageInfo
    \/ EnhancedGate
    \/ EnhancedCrackStep
    \/ EnhancedPorosityStep
    \/ EnhancedPorosityInstance
    \/ EnhancedSlagStep
    \/ AnalyzeAssemble
    \/ AnalyzeSave
    \/ AnalyzeDataset
    \/ FallbackReceive
    \/ SimulatedGate
    \/ SimulatedCrackStep
    \/ SimulatedPorosityStep
    \/ SimulatedPorosityInstance
    \/ SimulatedSlagStep
    \/ FallbackAssemble
    \/ FallbackSave

Spec == Init /\ [][Next]_vars

----------------------------------------------------------------------------
(* Properties *)

Responded == response # <<>>

Succeeded == Responded /\ response[1].body.success

Failed == Responded /\ ~response[1].body.success

IsAnalyze == req.endpoint = "/api/analyze"

\* the largest size the handlers draw
MaxWidth == 1024 + RandomInt(512, RandDen - 1)

MaxHeight == 768 + RandomInt(384, RandDen - 1)

RECURSIVE SumCounts(_, _)
SumCounts(f, keys) ==
    IF keys = {} THEN 0
    ELSE LET k == CHOOSE x \in keys : TRUE
         IN  f[k] + SumCounts(f, keys \ {k})

\* C1: every bounding box either generator has produced lies inside the
\* image: 0 <= x, 0 <= y, x + width <= image width, y + height <= image height
C1_BoundsInvariant ==
    \A i \in 1..Len(generated) :
        LET b == generated[i].bbox
        IN  /\ 0 <= b.x
            /\ 0 <= b.y
            /\ b.x + b.width <= imageInfo[1].width
            /\ b.y + b.height <= imageInfo[1].height

\* a crack, a porosity and a slag box drawn at the largest image size
C1_Witness ==
    /\ pc = "done"
    /\ IsAnalyze
    /\ imageInfo # <<>>
    /\ imageInfo[1].width = MaxWidth
    /\ imageInfo[1].height = MaxHeight
    /\ {generated[i].class : i \in 1..Len(generated)} = {"crack", "porosity", "slag"}
    /\ \E i \in 1..Len(generated) :
          generated[i].bbox.x = FloorScaled(MaxWidth, 20, 40, RandDen - 1)

\* C2: in every successful response the counts of summary.defect_types sum
\* to summary.total_defects, which is the number of entries of detections
C2_SummaryConsistency ==
    Succeeded =>
        LET b == response[1].body
        IN  /\ SumCounts(b.summary.defect_types, DOMAIN b.summary.defect_types)
                  = b.summary.total_defects
            /\ b.summary.total_defects = Len(b.detections)

\* a successful response that counts one class more than once
C2_Witness ==
    /\ Succeeded
    /\ \E c \in DOMAIN response[1].body.summary.defect_types :
          response[1].body.summary.defect_types[c] >= 2
    /\ Cardinality(DOMAIN response[1].body.summary.defect_types) >= 2

\* C3: every detection of a successful response carries the center of its
\* own box: center.x = bbox.x + bbox.width / 2, center.y = bbox.y + bbox.height / 2
\* (both sides doubled; center is kept in 1/CenterScale pixels)
C3_CenterDerivation ==
    Succeeded =>
        \A i \in 1..Len(response[1].body.detections) :
            LET d == response[1].body.detections[i]
            IN  /\ 2 * d.center.x = CenterScale * (2 * d.bbox.x + d.bbox.width)
                /\ 2 * d.center.y = CenterScale * (2 * d.bbox.y + d.bbox.height)

\* a successful response with a box of odd width (a center on a half pixel)
C3_Witness ==
    /\ Succeeded
    /\ \E i \in 1..Len(response[1].body.detections) :
          /\ response[1].body.detections[i].bbox.width % 2 = 1
          /\ response[1].body.detections[i].bbox.x > 0

\* C4: a successful response with no detection reports average_confidence
\* exactly 0: a quotient with numerator 0 and a denominator that is not 0
C4_EmptyAverage ==
    (Succeeded /\ response[1].body.detections = <<>>) =>
        /\ response[1].body.summary.average_confidence.num = 0
        /\ response[1].body.summary.average_confidence.den # 0

\* a successful response of either endpoint with an empty detection list
C4_Witness ==
    /\ Succeeded
    /\ response[1].body.detections = <<>>
    /\ response[1].body.summary.total_defects = 0

\* C5: every response with success = false carries detections = [] and a
\* summary with total_defects = 0
C5_FailureEnvelope ==
    Failed =>
        /\ "detections" \in DOMAIN response[1].body
        /\ response[1].body.detections = <<>>
        /\ "summary" \in DOMAIN response[1].body
        /\ response[1].body.summary.total_defects = 0

\* C6: when the history-store write has failed (the insert error is logged),
\* the caller still receives the response with success = true
C6_PersistenceFailureNotSurfaced ==
    ("Database insert error:" \in log /\ Responded) => response[1].body.success

\* the uploads that fail validation: no file, a file over 10 MB, a file
\* that is neither JPEG, PNG nor DICOM
FailsValidation(sent) == sent \in {<<>>, <<JpegHuge>>, <<TextFile>>}

\* C7: a request to /api/analyze that fails validation is answered with
\* success = false and a message, and nothing is synthesised, written to
\* uploads/ or the dataset, or stored in the history
C7_ValidationShortCircuit ==
    (IsAnalyze /\ FailsValidation(req.upload)) =>
        /\ Failed
        /\ response[1].body.message = "No image file uploaded"
        /\ imageInfo = <<>>
        /\ generated = <<>>
        /\ detections = <<>>
        /\ uploads = {}
        /\ datasetFiles = {}
        /\ history = <<>>
        /\ trainingImages = <<>>

\* an oversized JPEG that asked for dataset saving has been answered
C7_Witness ==
    /\ pc = "done"
    /\ IsAnalyze
    /\ req.upload = <<JpegHuge>>
    /\ req.body.saveToDataset = "true"
    /\ Failed

ThresholdIsOne == IsAnalyze /\ req.body.confidenceThreshold = "1.0"

\* C8 as stated: with confidenceThreshold = 1.0 the response of /api/analyze
\* has detections = [] and average_confidence = 0
C8_Original ==
    (Succeeded /\ ThresholdIsOne) =>
        /\ response[1].body.detections = <<>>
        /\ response[1].body.summary.average_confidence.num = 0

\* C8 amended: with confidenceThreshold = 1.0 the response of /api/analyze
\* returns every synthesised detection, each with confidence exactly 1.0;
\* average_confidence is 0 for an empty list and exactly 1.0 otherwise
C8_Amended ==
    (Succeeded /\ ThresholdIsOne) =>
        LET b == response[1].body
        IN  /\ Len(b.detections) = Len(generated)
            /\ \A i \in 1..Len(b.detections) : b.detections[i].confidence = ConfScale
            /\ IF b.detections = <<>>
               THEN b.summary.average_confidence.num = 0
               ELSE b.summary.average_confidence.num
                        = ConfScale * b.summary.average_confidence.den

\* a response for threshold 1.0 that carries a crack, porosity and slag
C8_Witness ==
    /\ Succeeded
    /\ ThresholdIsOne
    /\ Len(generated) >= 3
    /\ Len(response[1].body.detections) >= 3

\* C9: every detection of a response has a confidence within [0, 1]
C9_ConfidenceRange ==
    Succeeded =>
        \A i \in 1..Len(response[1].body.detections) :
            /\ 0 <= response[1].body.detections[i].confidence
            /\ response[1].body.detections[i].confidence <= ConfScale

\* generation order of the classes
ClassRank(c) == CASE c = "crack" -> 1 [] c = "porosity" -> 2 [] OTHER -> 3

\* the generator of /api/analyze has returned
EnhancedReturned == IsAnalyze /\ pending # <<>>

\* indices of the synthesised detections that reach the threshold
Kept == {i \in 1..Len(generated) :
            generated[i].confidence >= confidenceThresholdOf(req.body)}

\* the j-th smallest index of Kept
KeptIndex(j) == CHOOSE i \in Kept : Cardinality({m \in Kept : m < i}) = j - 1

\* C10: what generateEnhancedDetections returns is exactly the synthesised
\* detections with confidence >= confidenceThreshold, in generation order
\* (crack, porosity instances, slag); the return step is always possible
C10_ThresholdFilter ==
    /\ (IsAnalyze /\ pc = "return") => ENABLED AnalyzeAssemble
    /\ IsAnalyze =>
          \A i \in 1..Len(generated), j \in 1..Len(generated) :
              i < j => ClassRank(generated[i].class) <= ClassRank(generated[j].class)
    /\ EnhancedReturned =>
          /\ Len(detections) = Cardinality(Kept)
          /\ \A j \in 1..Len(detections) : detections[j] = generated[KeptIndex(j)]

\* a returned list with a crack whose sample lay below the threshold 0.9,
\* porosity and slag; and so an answered request
C10_Witness ==
    /\ pc = "done"
    /\ EnhancedReturned
    /\ req.body.confidenceThreshold = "0.9"
    /\ Len(detections) >= 3
    /\ detections[1].class = "crack"
    /\ detections[1].confidence = confidenceThresholdOf(req.body)
    /\ detections[Len(detections)].class = "slag"

----------------------------------------------------------------------------
(* The threshold filter as a function of its arguments *)

\* longest detection list handed to the filter
MaxLen == 3

\* detections generateEnhancedDetections builds without a confidence floor
SampleDetections ==
    UNION {{EnhancedCrack(1024, 768, 0, t), EnhancedPorosity(1024, 768, 0, t),
            EnhancedSlag(1024, 768, 0, t)} : t \in DrawTuples}

\* the filter's arguments: a list of up to MaxLen detections and two
\* thresholds t1 <= t2, each one a request can carry or a sampled confidence
FilterInit ==
    /\ HandlerInit
    /\ ServiceInit
    /\ client = ClientInit
    /\ AdminInit
    /\ output = <<>>
    /\ LET Thresholds == {confidenceThresholdOf(b) : b \in Bodies}
                             \cup {d.confidence : d \in SampleDetections}
       IN  \E d \in UNION {[1..n -> SampleDetections] : n \in 0..MaxLen},
              a \in Thresholds :
              \E b \in {t \in Thresholds : a <= t} :
                  input = <<[detections |-> d, t1 |-> a, t2 |-> b]>>

\* detections.filter(d => d.confidence >= confidenceThreshold), once with
\* each threshold
FilterApply ==
    /\ input # <<>>
    /\ output = <<>>
    /\ output' = <<[kept1 |-> FilterByThreshold(input[1].detections, input[1].t1),
                    kept2 |-> FilterByThreshold(input[1].detections, input[1].t2)]>>
    /\ UNCHANGED <<input, adminVars, client, handlerVars, serviceVars>>

SpecFilter == FilterInit /\ [][FilterApply]_vars

\* how often x occurs in the sequence s
Occurrences(s, x) == Cardinality({i \in 1..Len(s) : s[i] = x})

\* C11: for one detection list and thresholds t1 <= t2, the detections kept
\* with t2 are among those kept with t1 (each as often at most), and both
\* results are drawn from the list
C11_ThresholdMonotone ==
    output # <<>> =>
        \A x \in SampleDetections :
            /\ Occurrences(output[1].kept2, x) <= Occurrences(output[1].kept1, x)
            /\ Occurrences(output[1].kept1, x) <= Occurrences(input[1].detections, x)

\* a list filtered with two thresholds of which the higher one drops a
\* detection that the lower one keeps, and keeps another
C11_Witness ==
    /\ output # <<>>
    /\ input[1].t1 < input[1].t2
    /\ output[1].kept2 # <<>>
    /\ Len(output[1].kept2) < Len(output[1].kept1)
    /\ Len(output[1].kept1) < Len(input[1].detections)

----------------------------------------------------------------------------
(* The browser: ProcessingModal.processImage and Home *)

\* const backendUrls of processImage
backendUrls == <<"/api/analyze-fallback", "http://localhost:8000/api/analyze">>

\* what a fetch settles with: a response, whose body is <<>> when it is not
\* JSON, or a rejection (a network error, or the abort of the 15 s timer).
\* The bodies are analysis responses as /api/analyze-fallback assembles
\* them, some of them without one property
Settlements ==
    LET SampleResponse(dets) ==
            FallbackResponse([filename |-> [stem |-> "welding_xray", ext |-> "jpg"],
                              width |-> 1024, height |-> 768, format |-> "JPEG",
                              size_bytes |-> 1500000], dets, 0)
        Without(r, f) == [k \in DOMAIN r \ {f} |-> r[k]]
        full == SampleResponse(<<SimulatedCrack(1024, 768, [conf |-> 0, x |-> 0,
                                                            y |-> 0, w |-> 0, h |-> 0])>>)
        answer(status, body) == [kind |-> "response", status |-> status, body |-> body]
        reject(name, text) == [kind |-> "reject", name |-> name, message |-> <<text>>]
    IN  << answer(200, <<SampleResponse(<<>>)>>),
           answer(200, <<full>>),
           answer(200, <<Without(full, "detections")>>),
           answer(200, <<Without(full, "summary")>>),
           answer(200, <<Without(full, "image_info")>>),
           answer(200, <<FailureBody("insert")>>),
           answer(200, <<>>),
           answer(400, <<[success |-> FALSE, message |-> <<"No image file uploaded">>]>>),
           answer(413, <<>>),
           answer(500, <<FailureBody("insert")>>),
           reject("TypeError", "Failed to fetch"),
           reject("AbortError", "The user aborted a request.") >>

responseOkAlways(r) == TRUE

\* response.ok
responseOk(r) == r.status \in 200..299

\* the text of a status within `HTTP ${response.status}`
StatusString(n) ==
    CASE n = 400 -> "400" [] n = 413 -> "413" [] n = 500 -> "500" [] OTHER -> "200"

validResponseDetectionsOnly(result) == "detections" \in DOMAIN result

\* the structure check of processImage, negated: the body may be shown
\* (!result.f holds for a property f the parsed body does not have)
validResponse(result) ==
    ~(\/ "detections" \notin DOMAIN result
      \/ "summary" \notin DOMAIN result
      \/ "image_info" \notin DOMAIN result)

\* the description processImage's catch block picks for an error
errorMessage(error) ==
    CASE error.name = "AbortError" ->
           "Analysis timed out. Please try with a smaller image or wait a moment."
      [] error.message = <<"Failed to fetch">> ->
           "Connection issue detected. The system will automatically retry with backup servers."
      [] error.message = <<"HTTP ", "413">> ->
           "Image file is too large. Please use an image under 10MB."
      [] error.message = <<"HTTP ", "400">> ->
           "Please upload a valid JPEG or PNG X-ray image."
      [] error.message = <<"All backends failed">> ->
           "All analysis servers are temporarily unavailable. Please try again in a moment."
      [] OTHER -> "Analysis could not be completed. Please try again."

\* the catch block of processImage for the thrown error, applied to page c
Caught(c, error) ==
    [c EXCEPT !.toasts = Append(@, [title |-> "Analysis failed",
                                    description |-> errorMessage(error),
                                    error |-> error]),
              !.progress = 0, !.status = "Initializing...", !.pc = "failed"]

\* the status line of a loop iteration
Connecting(url) ==
    IF url = backendUrls[2] THEN "Connecting to Python AI backend..."
                            ELSE "Connecting to Node.js backend..."

\* fetch(url, ...) is called: the request is on its way
Fetch(url) == [url |-> url, outcome |-> "pending"]

\* how the backend answered a fetch that settles with s
OutcomeOf(s) ==
    CASE s.kind = "response" /\ s.status \in 200..299 -> "ok"
      [] s.kind = "response" -> "status"
      [] s.name = "AbortError" -> "timeout"
      [] OTHER -> "network"

\* EnhancedUploadZone hands a file to Home (handleFileUpload,
\* handleProcessingStart); the modal opens and processImage runs up to its
\* first fetch
ProcessImage ==
    /\ ~client.isProcessing
    /\ client' = [client EXCEPT !.uploadedFile = <<"file">>, !.analysisResult = <<>>,
                                !.isProcessing = TRUE,
                                !.status = Connecting(backendUrls[1]), !.progress = 30,
                                !.response = <<>>, !.lastError = <<>>, !.result = <<>>,
                                !.contacted = <<Fetch(backendUrls[1])>>, !.pc = "fetch"]
    /\ UNCHANGED <<input, adminVars, output, handlerVars, serviceVars>>

\* the pending fetch settles; the loop breaks on an OK response, goes on to
\* the next url otherwise, and after the last url the check of line 78 throws
FetchSettles ==
    /\ client.pc = "fetch"
    /\ \E k \in DOMAIN Settlements :
         LET s == Settlements[k]
             i == Len(client.contacted)
             resp  == IF s.kind = "response" THEN <<s>> ELSE client.response
             error == IF s.kind = "response"
                      THEN [name |-> "Error",
                            message |-> <<"HTTP ", StatusString(s.status)>>]
                      ELSE [name |-> s.name, message |-> s.message]
             c     == [client EXCEPT !.response = resp,
                                     !.contacted[i].outcome = OutcomeOf(s)]
         IN  client' =
               IF s.kind = "response" /\ responseOk(s)
               THEN [c EXCEPT !.status = "Processing with AI model...",
                              !.progress = 60, !.pc = "json"]
               ELSE IF i < Len(backendUrls)
               THEN [c EXCEPT !.lastError = <<error>>,
                              !.status = Connecting(backendUrls[i + 1]),
                              !.contacted = Append(@, Fetch(backendUrls[i + 1]))]
               ELSE IF resp = <<>> \/ ~responseOk(resp[1])
               THEN Caught([c EXCEPT !.lastError = <<error>>], error)
               ELSE [c EXCEPT !.lastError = <<error>>,
                              !.status = "Processing with AI model...",
                              !.progress = 60, !.pc = "json"]
    /\ UNCHANGED <<input, adminVars, output, handlerVars, serviceVars>>

\* await response.json() settles; the success and structure checks either
\* throw into the catch block or start the 500 ms timer
JsonSettles ==
    /\ client.pc = "json"
    /\ LET body == client.response[1].body
       IN  client' =
             IF body = <<>>
             THEN Caught(client, [name |-> "SyntaxError",
                                  message |-> <<"Unexpected token">>])
             ELSE IF ~body[1].success
             THEN Caught([client EXCEPT !.result = body],
                         [name |-> "Error", message |-> body[1].message])
             ELSE IF ~validResponse(body[1])
             THEN Caught([client EXCEPT !.result = body, !.progress = 90,
                                        !.status = "Finalizing results..."],
                         [name |-> "Error",
                          message |-> <<"Invalid response format from backend">>])
             ELSE [client EXCEPT !.result = body, !.progress = 100,
                                 !.status = "Finalizing results...", !.pc = "timer"]
    /\ UNCHANGED <<input, adminVars, output, handlerVars, serviceVars>>

\* the timer fires: onAnalysisComplete(result) is Home's handleAnalysisResult
TimerFires ==
    /\ client.pc = "timer"
    /\ client' = [client EXCEPT !.analysisResult = client.result,
                                !.isProcessing = FALSE,
                                !.progress = 0, !.status = "Initializing...",
                                !.pc = "closed"]
    /\ UNCHANGED <<input, adminVars, output, handlerVars, serviceVars>>

ClientNext ==
    \/ ProcessImage
    \/ FetchSettles
    \/ JsonSettles
    \/ TimerFires

SpecClient == Init /\ [][ClientNext]_vars

\* outcomes of a fetch that count as a failure of the backend
FailedOutcomes == {"status", "network", "timeout"}

\* an error of the loop: an error status, a network error or a timeout
UpstreamError(e) ==
    e.name \in {"TypeError", "AbortError"} \/ e.message[1] = "HTTP "

\* C12: processImage contacts the backends in list order, each one only
\* after every earlier one has failed (error status, network error or
\* timeout), so none after one answered OK; it leaves the loop only with an
\* OK answer or with every backend tried; and it reports an upstream failure
\* exactly when every backend of the list has failed
C12_BackendFallback ==
    LET c == client.contacted
        allFailed == /\ Len(c) = Len(backendUrls)
                     /\ \A i \in 1..Len(c) : c[i].outcome \in FailedOutcomes
    IN  /\ Len(c) <= Len(backendUrls)
        /\ \A i \in 1..Len(c) : c[i].url = backendUrls[i]
        /\ \A i \in 1..(Len(c) - 1) : c[i].outcome \in FailedOutcomes
        /\ (client.pc \in {"json", "timer", "failed"}) =>
              (c[Len(c)].outcome = "ok" \/ allFailed)
        /\ (\E t \in 1..Len(client.toasts) : UpstreamError(client.toasts[t].error))
              => allFailed
        /\ (allFailed /\ client.pc # "fetch") =>
              /\ client.pc = "failed"
              /\ client.toasts # <<>>
              /\ client.toasts[Len(client.toasts)].error = client.lastError[1]

\* the first backend failed with an error status, the second one answered OK
\* and its analysis is shown without a failure report
C12_Witness ==
    /\ Len(client.contacted) = 2
    /\ client.contacted[1].outcome = "status"
    /\ client.contacted[2].outcome = "ok"
    /\ client.analysisResult # <<>>
    /\ client.toasts = <<>>

\* the properties the structure check asks for
RequiredFields == {"detections", "summary", "image_info"}

\* C13: a parsed body that lacks detections, summary or image_info is never
\* handed to onAnalysisComplete (it is neither awaiting the timer nor Home's
\* analysisResult); processImage ends with the toast "Analysis failed"
C13_MalformedRejected ==
    /\ client.analysisResult # <<>> => RequiredFields \subseteq DOMAIN client.analysisResult[1]
    /\ client.pc = "timer" => RequiredFields \subseteq DOMAIN client.result[1]
    /\ (client.result # <<>> /\ ~(RequiredFields \subseteq DOMAIN client.result[1])) =>
          /\ client.pc = "failed"
          /\ client.analysisResult = <<>>
          /\ client.toasts # <<>>
          /\ client.toasts[Len(client.toasts)].title = "Analysis failed"

\* the second backend answered OK with success = true and no summary, and
\* the call ended with the failure toast for an invalid response format
C13_Witness ==
    /\ client.pc = "failed"
    /\ Len(client.contacted) = 2
    /\ client.result # <<>>
    /\ client.result[1].success
    /\ "summary" \notin DOMAIN client.result[1]
    /\ client.toasts[1].error.message = <<"Invalid response format from backend">>

----------------------------------------------------------------------------
(* The history store across requests: saveAnalysisResult, GET /api/history *)

\* .limit(50) of PostgresStorage.getAnalysisHistory
HistoryLimit == 50

\* most analyses whose options are chosen freely
MaxSaved == 3

\* most analyses beyond HistoryLimit
MaxBeyond == 2

getAnalysisHistoryOldest(rows) ==
    [i \in 1..(IF Len(rows) < HistoryLimit THEN Len(rows) ELSE HistoryLimit) |->
        [success |-> TRUE,
         message |-> "Analysis completed successfully",
         image_info |-> rows[i].imageInfo,
         detections |-> rows[i].detections,
         summary |-> rows[i].summary]]

\* PostgresStorage.getAnalysisHistory: the HistoryLimit newest rows, newest
\* first, each one turned into a response (rows is kept oldest first)
getAnalysisHistory(rows) ==
    [i \in 1..(IF Len(rows) < HistoryLimit THEN Len(rows) ELSE HistoryLimit) |->
        LET result == rows[Len(rows) + 1 - i]
        IN  [success |-> TRUE,
             message |-> "Analysis completed successfully",
             image_info |-> result.imageInfo,
             detections |-> result.detections,
             summary |-> result.summary]]

\* the responses POST /api/analyze can assemble for its n-th upload, n.jpg,
\* with an enhancement mode of modes and a number of detections of counts
Assembled(n, modes, counts) ==
    LET info == [filename |-> [stem |-> n, ext |-> "jpg"], width |-> 1024,
                 height |-> 768, format |-> "JPEG", size_bytes |-> 1024]
        crack == EnhancedCrack(1024, 768, 50 * ConfUnit,
                               [conf |-> 0, x |-> 0, y |-> 0, w |-> 0, h |-> 0])
    IN  {[enhancementMode |-> e, response |-> AnalyzeResponse(info, dets, e, 0)] :
            e \in modes, dets \in {[i \in 1..c |-> crack] : c \in counts}}

\* POST /api/analyze from the assembled response on: the handler awaits
\* storage.saveAnalysisResult and answers with the response when the insert
\* resolved, with 500 when it threw
Analyze(modes, counts, most) ==
    /\ Len(history) < most
    /\ \E a \in Assembled(Len(history) + 1, modes, counts), ok \in BOOLEAN :
         IF ok
         THEN /\ history' = insertValues(history,
                                AnalysisRow(a.response, "xray", a.enhancementMode = "clahe"))
              /\ answered' = Append(answered, a.response)
              /\ UNCHANGED log
         ELSE /\ log' = log \cup {"Database insert error:", "Analysis failed:"}
              /\ UNCHANGED <<history, answered>>
    /\ UNCHANGED <<pc, req, now, locals, response, uploads, datasetFiles, trainingImages,
                   input, adminVars, output, client, listed, workers, disk>>

\* GET /api/history: the list of storage.getAnalysisHistory, or 500
GetHistory ==
    /\ \E ok \in BOOLEAN :
         listed' = IF ok
                   THEN <<[success |-> TRUE, history |-> getAnalysisHistory(history)]>>
                   ELSE <<[success |-> FALSE,
                           message |-> <<"Failed to retrieve history: ", "select">>]>>
    /\ UNCHANGED <<handlerVars, input, adminVars, output, client, answered, workers, disk>>

\* up to MaxSaved analyses with either message, and listings
SpecStorage ==
    Init /\ [][Analyze({"none", "clahe"}, {0, 1}, MaxSaved) \/ GetHistory]_vars

\* more analyses than one listing holds, all alike but for the file name,
\* and listings
SpecHistory ==
    Init /\ [][Analyze({"none"}, {1}, HistoryLimit + MaxBeyond) \/ GetHistory]_vars

\* GET /api/history answers with a list in this step
Lists == listed' # listed /\ listed'[1].success

\* C14: the list GET /api/history returns holds, for every analysis saved
\* so far, an entry equal to the saved response in success, message,
\* image_info, detections and summary
C14_PersistedUnmodified ==
    [][(Lists /\ Len(answered) <= HistoryLimit) =>
          \A k \in 1..Len(answered) :
              \E i \in 1..Len(listed'[1].history) :
                  listed'[1].history[i] = answered[k]]_vars

\* the stored fields of an analysis are those of the list entry e
SameAnalysis(e, r) ==
    /\ e.image_info = r.image_info
    /\ e.detections = r.detections
    /\ e.summary = r.summary

\* no row of analysisResults is removed or changed in this step
RowsKept ==
    /\ Len(history') >= Len(history)
    /\ \A i \in 1..Len(history) : history'[i] = history[i]

\* C15 as stated: every analysis answered with success = true is in every
\* later list of GET /api/history, and no step removes or changes an entry
C15_Original ==
    [][/\ RowsKept
       /\ Lists => \A k \in 1..Len(answered) :
                      \E i \in 1..Len(listed'[1].history) :
                          SameAnalysis(listed'[1].history[i], answered[k])]_vars

\* C15 amended: every analysis answered with success = true stays a row of
\* analysisResults, which no step removes or changes; a list of
\* GET /api/history holds the HistoryLimit newest of them, newest first,
\* each with its image_info, detections and summary
C15_Amended ==
    [][/\ RowsKept
       /\ Len(history') = Len(answered')
       /\ \A k \in 1..Len(answered') :
             /\ history'[k].imageInfo = answered'[k].image_info
             /\ history'[k].detections = answered'[k].detections
             /\ history'[k].summary = answered'[k].summary
       /\ Lists =>
             LET list == listed'[1].history
                 n == Len(answered)
             IN  /\ Len(list) = IF n < HistoryLimit THEN n ELSE HistoryLimit
                 /\ \A i \in 1..Len(list) : SameAnalysis(list[i], answered[n + 1 - i])]_vars

\* a list taken after HistoryLimit + 1 analyses: it is full, ends with the
\* second analysis and so lacks the first
C15_Witness ==
    /\ Len(answered) = HistoryLimit + 1
    /\ listed # <<>>
    /\ listed[1].success
    /\ Len(listed[1].history) = HistoryLimit
    /\ SameAnalysis(listed[1].history[HistoryLimit], answered[2])
    /\ listed[1].history[1].image_info.filename.stem = HistoryLimit + 1

----------------------------------------------------------------------------
(* One request: the history write *)

\* C16: a request of /api/analyze or /api/analyze-fallback that is answered
\* with success = true has issued exactly one history write; the write
\* happens after the response object is assembled, stores that object's
\* image_info, detections and summary, and no response was sent before it;
\* the body sent is the assembled object
C16_SingleHistoryWrite ==
    /\ [](Succeeded => Len(history) = 1)
    /\ [][history' # history =>
            /\ pending # <<>>
            /\ pending' = pending
            /\ response = <<>>
            /\ Len(history') = Len(history) + 1
            /\ history'[Len(history')].imageInfo = pending[1].image_info
            /\ history'[Len(history')].detections = pending[1].detections
            /\ history'[Len(history')].summary = pending[1].summary]_vars
    /\ [][(response' # response /\ response'[1].body.success) =>
            /\ Len(history') = 1
            /\ response'[1].body = pending[1]]_vars

\* an /api/analyze request with saveToDataset answered with success = true:
\* its one history row was written a step before the response was sent
C16_Witness ==
    /\ Succeeded
    /\ IsAnalyze
    /\ saveToDatasetOf(req.body)
    /\ Len(history) = 1
    /\ Len(response[1].body.detections) >= 3
    /\ history[1].detections = response[1].body.detections

----------------------------------------------------------------------------
(* Two /api/analyze requests side by side *)

\* the requests in flight
Requests == {1, 2}

\* the latest Date.now()
MaxNow == 1

\* names of the files the clients upload: 1.jpg, 2.jpg
FileStems == {1, 2}

\* fs.promises.writeFile(path, content), resolved: the file holds content
writeFile(files, path, content) ==
    [p \in DOMAIN files \cup {path} |-> IF p = path THEN content ELSE files[p]]

\* every request is still to arrive
ConcurrentInit ==
    /\ HandlerInit
    /\ input = <<>>
    /\ output = <<>>
    /\ client = ClientInit
    /\ AdminInit
    /\ answered = <<>>
    /\ listed = <<>>
    /\ disk = <<>>
    /\ workers = [w \in Requests |->
                    [pc |-> "idle", file |-> <<>>, saveToDataset |-> FALSE,
                     originalPath |-> <<>>, pending |-> <<>>, response |-> <<>>]]

\* a millisecond passes
Tick ==
    /\ now < MaxNow
    /\ now' = now + 1
    /\ UNCHANGED <<pc, req, locals, response, stores, log, others>>

\* request w passes multer with a file of its own bytes; the handler takes
\* timestamp = Date.now(), builds originalPath and starts writing the upload
Arrive(w) ==
    /\ workers[w].pc = "idle"
    /\ \E stem \in FileStems, save \in BOOLEAN :
         LET file == [originalname |-> [stem |-> stem, ext |-> "jpg"],
                      mimetype |-> <<"image", "jpeg">>, size |-> 1024,
                      buffer |-> <<"bytes of request", w>>]
         IN  workers' = [workers EXCEPT ![w] =
                            [@ EXCEPT !.pc = "writeFile", !.file = <<file>>,
                                      !.saveToDataset = save,
                                      !.originalPath = <<originalPathOf(now, file)>>]]
    /\ UNCHANGED <<handlerVars, input, adminVars, output, client, answered, listed, disk>>

\* the upload of w is written; the handler builds imageInfo, generates the
\* detections, assembles the response and calls storage.saveAnalysisResult
Written(w) ==
    /\ workers[w].pc = "writeFile"
    /\ \E ok \in BOOLEAN :
         IF ok
         THEN /\ disk' = writeFile(disk, workers[w].originalPath[1],
                                   workers[w].file[1].buffer)
              /\ \E a \in Assembled(workers[w].file[1].originalname.stem, {"none"}, {0, 1}) :
                   workers' = [workers EXCEPT ![w] =
                                  [@ EXCEPT !.pc = "save", !.pending = <<a.response>>]]
              /\ UNCHANGED log
         ELSE /\ workers' = [workers EXCEPT ![w] =
                                [@ EXCEPT !.pc = "done",
                                          !.response = <<[status |-> 500,
                                                          body |-> FailureBody("writeFile")]>>]]
              /\ log' = log \cup {"Analysis failed:"}
              /\ UNCHANGED disk
    /\ UNCHANGED <<pc, req, now, locals, response, stores, input, adminVars, output, client,
                   answered, listed>>

\* the insert of w resolves or throws; without saveToDataset the response is
\* sent at once
Saved(w) ==
    /\ workers[w].pc = "save"
    /\ \E ok \in BOOLEAN :
         IF ok
         THEN /\ history' = insertValues(history,
                                AnalysisRow(workers[w].pending[1], "xray", FALSE))
              /\ workers' = [workers EXCEPT ![w] =
                                IF @.saveToDataset
                                THEN [@ EXCEPT !.pc = "dataset"]
                                ELSE [@ EXCEPT !.pc = "done",
                                               !.response =
                                                   <<[status |-> 200,
                                                      body |-> workers[w].pending[1]]>>]]
              /\ UNCHANGED log
         ELSE /\ workers' = [workers EXCEPT ![w] =
                                [@ EXCEPT !.pc = "done",
                                          !.response = <<[status |-> 500,
                                                          body |-> FailureBody("insert")]>>]]
              /\ log' = log \cup {"Database insert error:", "Analysis failed:"}
              /\ UNCHANGED history
    /\ UNCHANGED <<pc, req, now, locals, response, uploads, datasetFiles, trainingImages,
                   input, adminVars, output, client, answered, listed, disk>>

\* saveToTrainingDataset of w with its own timestamp = Date.now(): the image
\* copy, the label file and the rows, or an error that is only logged; then
\* res.json(response)
DatasetSaved(w) ==
    /\ workers[w].pc = "dataset"
    /\ \E ok \in BOOLEAN :
         LET file == workers[w].file[1]
             dets == workers[w].pending[1].detections
             imagePath == [dir |-> "dataset/images/train", timestamp |-> now,
                           name |-> file.originalname]
             labelPath == [dir |-> "dataset/labels/train", timestamp |-> now,
                           name |-> [stem |-> file.originalname.stem, ext |-> "txt"]]
             rows == [i \in 1..Len(dets) |->
                         TrainingRow(dets[i], [timestamp |-> now, name |-> file.originalname],
                                     "xray", workers[w].originalPath[1], imagePath, labelPath)]
         IN  IF ok
             THEN /\ disk' = writeFile(writeFile(disk, imagePath, file.buffer), labelPath,
                                       [i \in 1..Len(dets) |-> YoloLabel(dets[i])])
                  /\ trainingImages' = trainingImages \o rows
                  /\ UNCHANGED log
             ELSE /\ log' = log \cup {"Failed to save to training dataset:"}
                  /\ UNCHANGED <<disk, trainingImages>>
    /\ workers' = [workers EXCEPT ![w] =
                      [@ EXCEPT !.pc = "done",
                                !.response = <<[status |-> 200, body |-> workers[w].pending[1]]>>]]
    /\ UNCHANGED <<pc, req, now, locals, response, uploads, history, datasetFiles,
                   input, adminVars, output, client, answered, listed>>

ConcurrentNext ==
    \/ Tick
    \/ \E w \in Requests : Arrive(w)
    \/ \E w \in Requests : Written(w)
    \/ \E w \in Requests : Saved(w)
    \/ \E w \in Requests : DatasetSaved(w)

SpecConcurrent == ConcurrentInit /\ [][ConcurrentNext]_vars

\* request w was answered with success = true
Served(w) == workers[w].response # <<>> /\ workers[w].response[1].body.success

\* C17: two /api/analyze requests in flight do not interfere: they never
\* use the same upload path, the upload file of an answered request holds
\* that request's bytes, and its response and its history row name its file
C17_NoInterference ==
    workers # <<>> =>
        \A w \in Requests :
            /\ \A v \in Requests \ {w} :
                  (workers[w].originalPath # <<>> /\ workers[v].originalPath # <<>>)
                      => workers[w].originalPath # workers[v].originalPath
            /\ Served(w) =>
                  /\ disk[workers[w].originalPath[1]] = workers[w].file[1].buffer
                  /\ workers[w].response[1].body.image_info.filename
                        = workers[w].file[1].originalname
                  /\ \E i \in 1..Len(history) :
                        history[i].imageInfo = workers[w].response[1].body.image_info

----------------------------------------------------------------------------
(* File validation on both sides: uploadSchema and validateImageFile *)

\* the files a user picks: what the file is (format), and the name and the
\* MIME type the browser reports for it ("" for a type it does not know)
PickedFiles ==
    LET kinds == << [format |-> "JPEG",  type |-> <<"image", "jpeg">>,  ext |-> "jpg"],
                    [format |-> "JPEG",  type |-> <<"image", "jpeg">>,  ext |-> "jpeg"],
                    [format |-> "JPEG",  type |-> <<"image", "jpg">>,   ext |-> "jpg"],
                    [format |-> "PNG",   type |-> <<"image", "png">>,   ext |-> "png"],
                    [format |-> "DICOM", type |-> <<"application", "dicom">>, ext |-> "dcm"],
                    [format |-> "DICOM", type |-> <<"application", "octet-stream">>,
                     ext |-> "dcm"],
                    [format |-> "DICOM", type |-> <<"", "">>, ext |-> "DCM"],
                    [format |-> "GIF",   type |-> <<"image", "gif">>,   ext |-> "gif"],
                    [format |-> "TEXT",  type |-> <<"text", "plain">>,  ext |-> "txt"],
                    [format |-> "ZIP",   type |-> <<"application", "zip">>, ext |-> "zip"],
                    [format |-> "BINARY", type |-> <<"application", "octet-stream">>,
                     ext |-> "bin"],
                    [format |-> "TEXT",  type |-> <<"", "">>, ext |-> "dcm"] >>
    IN  {[format |-> kinds[k].format, type |-> kinds[k].type,
          name |-> [stem |-> "weld", ext |-> kinds[k].ext], size |-> size] :
            k \in DOMAIN kinds,
            size \in {0, 1024, maxSize - 1, maxSize, maxSize + 1}}

\* uploadSchema.parse({file}) does not throw
uploadSchema(file) ==
    /\ file.size <= 10 * 1024 * 1024
    /\ \/ file.type \in {<<"image", "jpeg">>, <<"image", "png">>, <<"image", "jpg">>,
                         <<"application", "dicom">>, <<"application", "octet-stream">>}
       \/ ToLowerCase(file.name.ext) = "dcm"

UploadInit ==
    /\ HandlerInit
    /\ ServiceInit
    /\ client = ClientInit
    /\ AdminInit
    /\ output = <<>>
    /\ \E file \in PickedFiles : input = <<file>>

\* the page validates the picked file; the server validates the same file
\* as multer hands it over (originalname, mimetype and size of the part)
UploadValidate ==
    /\ input # <<>>
    /\ output = <<>>
    /\ output' = <<[client |-> uploadSchema(input[1]),
                    server |-> validateImageFile([originalname |-> input[1].name,
                                                  mimetype |-> input[1].type,
                                                  size |-> input[1].size])]>>
    /\ UNCHANGED <<input, adminVars, client, handlerVars, serviceVars>>

SpecUpload == UploadInit /\ [][UploadValidate]_vars

\* C18: a file is accepted exactly when it has at most 10 MB and is a JPEG,
\* PNG or DICOM file, and the client schema and the server validator accept
\* the same files
C18_AcceptedFiles ==
    output # <<>> =>
        /\ output[1].client = output[1].server
        /\ output[1].server <=> (/\ input[1].size <= 10 * 1024 * 1024
                                 /\ input[1].format \in {"JPEG", "PNG", "DICOM"})

----------------------------------------------------------------------------
(* One request: confidences and counts of the generated detections *)

\* the confidence floor of the request's generator: confidenceThreshold in
\* generateEnhancedDetections, none in generateSimulatedDetections
ConfidenceFloor == IF IsAnalyze THEN confidenceThresholdOf(req.body) ELSE 0

\* every generated detection has a confidence within the range of its
\* class when the floor does not exceed that range, and the floor otherwise
WithinRanges(range) ==
    \A i \in 1..Len(generated) :
        LET d == generated[i]
            r == range[d.class]
        IN  IF ConfidenceFloor <= r.hi
            THEN r.lo <= d.confidence /\ d.confidence <= r.hi
                   /\ ConfidenceFloor <= d.confidence
            ELSE d.confidence = ConfidenceFloor

\* C19 as stated: the class ranges are crack [0.85, 0.95], porosity
\* [0.70, 0.95], slag [0.65, 0.85]
C19_Original ==
    WithinRanges([crack    |-> [lo |-> 85 * ConfUnit, hi |-> 95 * ConfUnit],
                  porosity |-> [lo |-> 70 * ConfUnit, hi |-> 95 * ConfUnit],
                  slag     |-> [lo |-> 65 * ConfUnit, hi |-> 85 * ConfUnit]])

\* C19 amended: the class ranges are crack [0.80, 0.95], porosity
\* [0.70, 0.95], slag [0.65, 0.85]; within them the confidence is at least
\* the floor, and with a floor above the range it is the floor
C19_Amended ==
    WithinRanges([crack    |-> [lo |-> 80 * ConfUnit, hi |-> 95 * ConfUnit],
                  porosity |-> [lo |-> 70 * ConfUnit, hi |-> 95 * ConfUnit],
                  slag     |-> [lo |-> 65 * ConfUnit, hi |-> 85 * ConfUnit]])

\* /api/analyze with the default floor 0.5 has generated a crack of
\* confidence 0.80, a porosity and a slag, and has answered
C19_Witness ==
    /\ pc = "done"
    /\ IsAnalyze
    /\ ConfidenceFloor = 50 * ConfUnit
    /\ Len(generated) >= 3
    /\ generated[1].class = "crack"
    /\ generated[1].confidence = 80 * ConfUnit
    /\ generated[Len(generated)].class = "slag"

\* how many generated detections are of class c
ClassCount(c) == Cardinality({i \in 1..Len(generated) : generated[i].class = c})

\* C20: a generator emits at most one crack, at most one slag and at most
\* three porosity instances, so between 0 and 5 detections, each of class
\* crack, porosity or slag; what is returned is no longer
C20_DetectionCounts ==
    /\ ClassCount("crack") <= 1
    /\ ClassCount("slag") <= 1
    /\ ClassCount("porosity") <= 3
    /\ Len(generated) <= 5
    /\ \A i \in 1..Len(generated) : generated[i].class \in {"crack", "porosity", "slag"}
    /\ Len(detections) <= Len(generated)
    /\ Succeeded => Len(response[1].body.detections) <= 5

\* a response with five detections: a crack, three porosity instances, a slag
C20_Witness ==
    /\ Succeeded
    /\ Len(response[1].body.detections) = 5
    /\ ClassCount("crack") = 1
    /\ ClassCount("porosity") = 3
    /\ ClassCount("slag") = 1

----------------------------------------------------------------------------
(* One request: the outer gate and the label file *)

\* C21: at the outer gate of either generator the draw can fail, and every
\* step from the gate either enters the per-class draws or goes straight to
\* the return with an empty detection list, whatever the request
C21_GateBypass ==
    /\ []((pc = "gate") => ENABLED (EnhancedGate /\ pc' = "return"))
    /\ []((pc = "simGate") => ENABLED (SimulatedGate /\ pc' = "simReturn"))
    /\ []((pc \in {"gate", "simGate"}) => generated = <<>>)
    /\ [][(pc = "gate" /\ pc' # "crack") =>
             (pc' = "return" /\ generated' = <<>> /\ imageInfo' = imageInfo)]_vars
    /\ [][(pc = "simGate" /\ pc' # "simCrack") =>
             (pc' = "simReturn" /\ generated' = <<>> /\ imageInfo' = imageInfo)]_vars
    /\ [][(pc \in {"return", "simReturn"} /\ generated = <<>> /\ pc' # pc) =>
             (detections' = <<>> /\ pending'[1].summary.total_defects = 0)]_vars

\* a clean weld: /api/analyze with CLAHE on the largest image and
\* threshold 0.9 answered with an empty detection list
C21_Witness ==
    /\ Succeeded
    /\ IsAnalyze
    /\ generated = <<>>
    /\ response[1].body.detections = <<>>
    /\ req.body.enhancementMode = "clahe"
    /\ req.body.confidenceThreshold = "0.9"
    /\ imageInfo[1].width = MaxWidth

\* C22: every line of a label file written by saveToTrainingDataset has the
\* class id of its detection's class (the lines follow the crack,
\* porosity, slag order of the detections), and its centre and size, in
\* millionths, lie in [0, 1]
C22_YoloLabels ==
    \A f \in datasetFiles :
        f.path.dir = "dataset/labels/train" =>
            /\ Len(f.content) = Len(detections)
            /\ \A i \in 1..Len(f.content) :
                  LET l == f.content[i]
                  IN  /\ l.classId = ClassRank(detections[i].class) - 1
                      /\ \A v \in {l.centerX, l.centerY, l.width, l.height} :
                            0 <= v /\ v <= 1000000

----------------------------------------------------------------------------
(* Accounts and sessions: register, login, logout, authenticateToken *)

\* a session lives 7 days; the clock of this part counts days
SessionDays == 7

MaxDays == 7

MaxRequests == 4

MaxTokens == 2

Tokens == 1..MaxTokens

\* the Authorization header split at ' ': absent, scheme only, scheme and token
AuthHeaders == {<<>>, <<"Bearer">>} \cup {<<"Bearer", t>> : t \in Tokens}

Usernames == {"", "demo", "alice"}

Passwords == {"", "demo123", "wrong"}

\* authHeader && authHeader.split(' ')[1]
bearerToken(header) == IF Len(header) >= 2 THEN <<header[2]>> ELSE <<>>

\* crypto.randomBytes(32): a token no session was given before
sessionToken == 1 + Cardinality({i \in DOMAIN replies : replies[i].endpoint # "/api/logout"})

\* where(and(eq(sessions.token, token), gt(sessions.expiresAt, new Date())))
liveSessionsAnyAge(rows, token, date) ==
    LET Test(s) == s.token = token
    IN  SelectSeq(rows, Test)

liveSessions(rows, token, date) ==
    LET Test(s) == s.token = token /\ s.expiresAt > date
    IN  SelectSeq(rows, Test)

\* where(eq(users.username, username))
usersNamed(username) ==
    LET Test(u) == u.username = username
    IN  SelectSeq(users, Test)

deleteSessionsNone(rows, token) == rows

\* db.delete(sessions).where(eq(sessions.token, token))
deleteSessions(rows, token) ==
    LET Test(s) == s.token # token
    IN  SelectSeq(rows, Test)

\* the middleware: 401 with a message, or next() with req.user; `fails`
\* is the database call that throws (0: none)
authenticateToken(header, fails) ==
    LET token == bearerToken(header)
        session == liveSessions(sessions, token[1], now)
        user == LET Test(u) == u.id = session[1].userId
                IN  SelectSeq(users, Test)
    IN  IF token = <<>>
        THEN [next |-> FALSE, status |-> 401, message |-> "Access token required"]
        ELSE IF fails = 1
        THEN [next |-> FALSE, status |-> 401, message |-> "Invalid token"]
        ELSE IF session = <<>>
        THEN [next |-> FALSE, status |-> 401, message |-> "Invalid or expired token"]
        ELSE IF fails = 2
        THEN [next |-> FALSE, status |-> 401, message |-> "Invalid token"]
        ELSE IF user = <<>>
        THEN [next |-> FALSE, status |-> 401, message |-> "User not found"]
        ELSE [next |-> TRUE, status |-> 200, message |-> "", user |-> user[1]]

\* the requests answered so far
Asked == IF response = <<>> THEN 0 ELSE response[1].request

\* res.status(status).json(...): the answer is sent; the answers that made or
\* ended a session are kept in replies
Reply(endpoint, token, status) ==
    LET reply == [request |-> Asked + 1, endpoint |-> endpoint,
                  token |-> token, status |-> status]
    IN  /\ response' = <<reply>>
        /\ replies' = IF status \in {200, 201} /\ endpoint # "/api/user"
                      THEN Append(replies, reply)
                      ELSE replies

\* POST /api/register
Register ==
    /\ Asked < MaxRequests
    /\ sessionToken <= MaxTokens
    /\ \E username \in Usernames, email \in {"", "a@example.com"},
          password \in Passwords, fails \in 0..3 :
         LET newUser == [id |-> Len(users) + 1, username |-> username, email |-> email,
                         password |-> bcryptHash(password), role |-> "user"]
             session == [userId |-> newUser.id, token |-> sessionToken,
                         expiresAt |-> now + SessionDays]
         IN  IF username = "" \/ email = "" \/ password = ""
             THEN /\ Reply("/api/register", <<>>, 400)
                  /\ UNCHANGED <<users, sessions>>
             ELSE IF fails = 1
             THEN /\ Reply("/api/register", <<>>, 500)
                  /\ UNCHANGED <<users, sessions>>
             ELSE IF usersNamed(username) # <<>>
             THEN /\ Reply("/api/register", <<>>, 400)
                  /\ UNCHANGED <<users, sessions>>
             ELSE IF fails = 2
             THEN /\ Reply("/api/register", <<>>, 500)
                  /\ UNCHANGED <<users, sessions>>
             ELSE IF fails = 3
             THEN /\ users' = Append(users, newUser)
                  /\ Reply("/api/register", <<>>, 500)
                  /\ UNCHANGED sessions
             ELSE /\ users' = Append(users, newUser)
                  /\ sessions' = Append(sessions, session)
                  /\ Reply("/api/register", <<sessionToken>>, 201)
    /\ UNCHANGED <<pc, req, now, locals, stores, log, input, output, client, serviceVars,
                   models, isTraining, trainingProgress>>

\* POST /api/login
Login ==
    /\ Asked < MaxRequests
    /\ sessionToken <= MaxTokens
    /\ \E username \in Usernames, password \in Passwords, fails \in 0..2 :
         LET user == usersNamed(username)
             session == [userId |-> user[1].id, token |-> sessionToken,
                         expiresAt |-> now + SessionDays]
         IN  IF username = "" \/ password = ""
             THEN /\ Reply("/api/login", <<>>, 400)
                  /\ UNCHANGED sessions
             ELSE IF fails = 1
             THEN /\ Reply("/api/login", <<>>, 500)
                  /\ UNCHANGED sessions
             ELSE IF user = <<>> \/ ~bcryptCompare(password, user[1].password)
             THEN /\ Reply("/api/login", <<>>, 401)
                  /\ UNCHANGED sessions
             ELSE IF fails = 2
             THEN /\ Reply("/api/login", <<>>, 500)
                  /\ UNCHANGED sessions
             ELSE /\ sessions' = Append(sessions, session)
                  /\ Reply("/api/login", <<sessionToken>>, 200)
    /\ UNCHANGED <<pc, req, now, locals, stores, log, input, output, client, serviceVars,
                   users, models, isTraining, trainingProgress>>

\* GET /api/user behind authenticateToken
GetUser ==
    /\ Asked < MaxRequests
    /\ \E header \in AuthHeaders, fails \in 0..2 :
         Reply("/api/user", bearerToken(header), authenticateToken(header, fails).status)
    /\ UNCHANGED <<pc, req, now, locals, stores, log, input, output, client, serviceVars,
                   users, sessions, models, isTraining, trainingProgress>>

\* POST /api/logout behind authenticateToken
Logout ==
    /\ Asked < MaxRequests
    /\ \E header \in AuthHeaders, fails \in 0..3 :
         LET auth == authenticateToken(header, fails)
             token == bearerToken(header)
         IN  IF ~auth.next
             THEN /\ Reply("/api/logout", token, auth.status)
                  /\ UNCHANGED sessions
             ELSE IF fails = 3
             THEN /\ Reply("/api/logout", token, 500)
                  /\ UNCHANGED sessions
             ELSE /\ sessions' = deleteSessions(sessions, token[1])
                  /\ Reply("/api/logout", token, 200)
    /\ UNCHANGED <<pc, req, now, locals, stores, log, input, output, client, serviceVars,
                   users, models, isTraining, trainingProgress>>

\* a day, or a session's whole life, passes
DaysPass ==
    /\ \E days \in {SessionDays - 1, 1} :
         /\ now + days <= MaxDays
         /\ now' = now + days
    /\ UNCHANGED <<pc, req, locals, response, stores, log, others>>

SpecAuth == Init /\ [][Register \/ Login \/ GetUser \/ Logout \/ DaysPass]_vars

Authenticated(reply) == reply.endpoint \in {"/api/user", "/api/logout"}

LoggedOut(reply) == reply.endpoint = "/api/logout" /\ reply.status = 200

\* C23: once POST /api/logout answered 200 for a token, every later request
\* to a route behind authenticateToken that presents this token is answered 401
C23_LoggedOutRejected ==
    \A i \in DOMAIN replies, k \in DOMAIN response :
        (LoggedOut(replies[i]) /\ replies[i].request < response[k].request
            /\ Authenticated(response[k]) /\ response[k].token = replies[i].token)
            => response[k].status = 401

\* a login, its logout, and the same token presented again
C23_Witness ==
    \E i \in DOMAIN replies, k \in DOMAIN response :
        /\ LoggedOut(replies[i])
        /\ replies[i].request < response[k].request
        /\ response[k].endpoint = "/api/user"
        /\ response[k].token = replies[i].token
        /\ response[k].status = 401

\* C24: a request to a route behind authenticateToken reaches its handler
\* (is answered with anything but 401) only if the token it presents is the
\* token of a stored session that expires later than now, at most
\* SessionDays after it was made, and whose user is stored; otherwise the
\* answer is 401 and no session is deleted
C24_OnlyLiveSessions ==
    /\ [][(response' # response /\ Authenticated(response'[1])) =>
            IF \E k \in DOMAIN sessions, u \in DOMAIN users :
                   /\ <<sessions[k].token>> = response'[1].token
                   /\ sessions[k].expiresAt > now
                   /\ users[u].id = sessions[k].userId
            THEN TRUE
            ELSE response'[1].status = 401 /\ sessions' = sessions]_vars
    /\ [](\A k \in DOMAIN sessions : sessions[k].expiresAt <= now + SessionDays)
    /\ [][\A k \in DOMAIN sessions' :
             \/ sessions'[k].expiresAt = now + SessionDays
             \/ \E h \in DOMAIN sessions : sessions[h] = sessions'[k]]_vars

\* a session one day before its end was accepted, and on the day it ends
\* its token is refused with 401
C24_Witness ==
    \E k \in DOMAIN sessions :
        /\ sessions[k].expiresAt = now
        /\ response # <<>>
        /\ response[1].endpoint = "/api/user"
        /\ response[1].token = <<sessions[k].token>>
        /\ response[1].status = 401

----------------------------------------------------------------------------
(* Models: GET /api/models and POST /api/models/:id/activate side by side *)

\* gen_random_uuid() for the rows of the models table, in the order stored
Uuids == <<"u1", "u2", "u3">>

\* the :id of a request: the stored ids, a uuid of no row, and the id that
\* GET /api/models shows for the model it has just stored
ModelIds == {"u1", "u2", "u3", "default"}

\* db.update(models).set({ isActive: false })
deactivateAll(rows) == [i \in DOMAIN rows |-> [rows[i] EXCEPT !.isActive = FALSE]]

\* db.update(models).set({ isActive: true }).where(eq(models.id, modelId))
activateWhere(rows, modelId) ==
    [i \in DOMAIN rows |->
        IF rows[i].id = modelId THEN [rows[i] EXCEPT !.isActive = TRUE] ELSE rows[i]]

\* db.insert(models).values(model).returning({ id: models.id })
saveModel(rows, model) == Append(rows, [id |-> Uuids[Len(rows) + 1]] @@ model)

\* the request of caller w leaves its handler with this answer
Answer(w, reply) ==
    /\ response' = <<[request |-> Asked + 1] @@ reply>>
    /\ workers' = [v \in DOMAIN workers \ {w} |-> workers[v]]

\* a request arrives: GET /api/models or POST /api/models/:id/activate
Call(w) ==
    /\ w \notin DOMAIN workers
    /\ Asked + Cardinality(DOMAIN workers) < MaxRequests
    /\ \E id \in ModelIds \cup {""} :
         workers' = workers @@ (w :> [pc |-> IF id = "" THEN "getModels" ELSE "deactivate",
                                      id |-> id, rows |-> 0])
    /\ UNCHANGED <<handlerVars, input, output, client, answered, listed, disk, adminVars>>

\* GET /api/models: storage.getModels() resolves (or throws) and the list
\* is either answered or found empty
GetModels(w) ==
    /\ w \in DOMAIN workers
    /\ workers[w].pc = "getModels"
    /\ \E ok \in BOOLEAN :
         IF ~ok
         THEN Answer(w, [endpoint |-> "/api/models", id |-> "", status |-> 500,
                        success |-> FALSE, models |-> <<>>])
         ELSE IF Len(models) = 0
         THEN /\ workers' = [workers EXCEPT ![w].pc = "saveModel"]
              /\ UNCHANGED response
         ELSE Answer(w, [endpoint |-> "/api/models", id |-> "", status |-> 200,
                        success |-> TRUE, models |-> models])
    /\ UNCHANGED <<pc, req, now, locals, stores, log, input, output, client,
                   answered, listed, disk, adminVars>>

\* GET /api/models with no model: storage.saveModel(defaultModel) resolves
\* (or throws) and the answer lists the model under the id 'default'
SaveDefaultModel(w) ==
    /\ w \in DOMAIN workers
    /\ workers[w].pc = "saveModel"
    /\ Len(models) < Len(Uuids)
    /\ \E ok \in BOOLEAN :
         IF ~ok
         THEN /\ Answer(w, [endpoint |-> "/api/models", id |-> "", status |-> 500,
                           success |-> FALSE, models |-> <<>>])
              /\ UNCHANGED models
         ELSE /\ models' = saveModel(models, [isActive |-> TRUE])
              /\ Answer(w, [endpoint |-> "/api/models", id |-> "", status |-> 200,
                           success |-> TRUE,
                           models |-> <<[id |-> "default", isActive |-> TRUE]>>])
    /\ UNCHANGED <<pc, req, now, locals, stores, log, input, output, client,
                   answered, listed, disk, users, sessions, isTraining,
                   trainingProgress, replies>>

\* activateModel, first statement
Deactivate(w) ==
    /\ w \in DOMAIN workers
    /\ workers[w].pc = "deactivate"
    /\ \E ok \in BOOLEAN :
         IF ~ok
         THEN /\ Answer(w, [endpoint |-> "/api/models/:id/activate", id |-> workers[w].id,
                           status |-> 500, success |-> FALSE, models |-> <<>>])
              /\ UNCHANGED models
         ELSE /\ models' = deactivateAll(models)
              /\ workers' = [workers EXCEPT ![w].pc = "activate", ![w].rows = Len(models)]
              /\ UNCHANGED response
    /\ UNCHANGED <<pc, req, now, locals, stores, log, input, output, client,
                   answered, listed, disk, users, sessions, isTraining,
                   trainingProgress, replies>>

\* activateModel, second statement, and the route's answer; an id that is
\* no uuid makes the comparison with the uuid column throw
Activate(w) ==
    /\ w \in DOMAIN workers
    /\ workers[w].pc = "activate"
    /\ \E ok \in BOOLEAN :
         IF ~ok \/ \A k \in DOMAIN Uuids : Uuids[k] # workers[w].id
         THEN /\ Answer(w, [endpoint |-> "/api/models/:id/activate", id |-> workers[w].id,
                           status |-> 500, success |-> FALSE, models |-> <<>>])
              /\ UNCHANGED models
         ELSE /\ models' = activateWhere(models, workers[w].id)
              /\ Answer(w, [endpoint |-> "/api/models/:id/activate", id |-> workers[w].id,
                           status |-> 200, success |-> TRUE,
                           models |-> <<[rows |-> workers[w].rows]>>])
    /\ UNCHANGED <<pc, req, now, locals, stores, log, input, output, client,
                   answered, listed, disk, users, sessions, isTraining,
                   trainingProgress, replies>>

ModelsNext(w) ==
    Call(w) \/ GetModels(w) \/ SaveDefaultModel(w) \/ Deactivate(w) \/ Activate(w)

\* two callers side by side
SpecModels == Init /\ [][\E w \in Requests : ModelsNext(w)]_vars

\* one request after the other
SpecActivate == Init /\ [][ModelsNext(1)]_vars

ActiveModels == {i \in DOMAIN models : models[i].isActive}

Activated(reply) == reply.endpoint = "/api/models/:id/activate" /\ reply.success

\* C25: when no request is in flight and the last answer is a successful
\* activation during which no model was stored, at most one model is active
C25_OneActiveModel ==
    (/\ workers = <<>>
     /\ response # <<>>
     /\ Activated(response[1])
     /\ response[1].models[1].rows = Len(models))
        => Cardinality(ActiveModels) <= 1

\* C26: an activation that answers success leaves a model with the
\* requested id as the single active model, and an activation whose id is
\* the id of no stored model changes no isActive
C26_ActivateReportsTruth ==
    /\ [][(response' # response /\ Activated(response'[1])) =>
            \E i \in DOMAIN models' :
                models'[i].id = response'[1].id /\ ActiveModels' = {i}]_vars
    /\ [][\A w \in DOMAIN workers :
            ((\A i \in DOMAIN models : models[i].id # workers[w].id)
                /\ workers[w].pc \in {"deactivate", "activate"})
                => models' = models]_vars

\* C27: at most one default model is ever stored
C27_OneDefaultModel == Len(models) <= 1

----------------------------------------------------------------------------
(* Training: POST /api/train-model and TrainingPanel.startTraining *)

MinImages == 10

MinLabels == 20

MaxImages == 11

MaxLabels == 3

\* an entry of images: null, or an object whose labels are absent (<<>>) or
\* an array of <<n>> labels
ImageEntries ==
    {[isNull |-> TRUE, labels |-> <<>>]}
        \cup {[isNull |-> FALSE, labels |-> l] : l \in {<<>>} \cup {<<n>> : n \in 0..MaxLabels}}

\* req.body.images: absent, a string, or an array whose entries are alike
\* except the first
TrainBodies ==
    {[images |-> [kind |-> k, items |-> <<>>]] : k \in {"undefined", "string"}}
        \cup {[images |-> [kind |-> "array",
                           items |-> [i \in 1..n |-> IF i = 1 THEN first ELSE rest]]] :
                 n \in 0..MaxImages, first \in ImageEntries,
                 rest \in {e \in ImageEntries : ~e.isNull}}

\* images.reduce((sum, img) => sum + (img.labels?.length || 0), 0)
RECURSIVE totalLabels(_, _)
totalLabels(images, i) ==
    IF i > Len(images) THEN 0
    ELSE (IF images[i].labels = <<>> THEN 0 ELSE images[i].labels[1])
            + totalLabels(images, i + 1)

\* the handler of POST /api/train-model: status and body of its answer
trainModel(body, date) ==
    LET images == body.images
    IN  IF images.kind # "array"
        THEN [status |-> 400, success |-> FALSE, trainingId |-> <<>>,
              message |-> "Invalid training data provided"]
        ELSE IF \E i \in DOMAIN images.items : images.items[i].isNull
        THEN [status |-> 500, success |-> FALSE, trainingId |-> <<>>,
              message |-> "Training failed: Cannot read properties of null"]
        ELSE IF Len(images.items) < MinImages
        THEN [status |-> 400, success |-> FALSE, trainingId |-> <<>>,
              message |-> "Minimum 10 images required for training"]
        ELSE IF totalLabels(images.items, 1) < MinLabels
        THEN [status |-> 400, success |-> FALSE, trainingId |-> <<>>,
              message |-> "Minimum 20 labels required for training"]
        ELSE [status |-> 200, success |-> TRUE, trainingId |-> <<date>>,
              message |-> "Training started successfully"]

TrainInit ==
    /\ HandlerInit
    /\ ServiceInit
    /\ client = ClientInit
    /\ AdminInit
    /\ output = <<>>
    /\ \E body \in TrainBodies : input = <<body>>

\* the handler answers the request
TrainModelApply ==
    /\ input # <<>>
    /\ output = <<>>
    /\ output' = <<trainModel(input[1], now)>>
    /\ UNCHANGED <<input, adminVars, client, handlerVars, serviceVars>>

SpecTrainModel == TrainInit /\ [][TrainModelApply]_vars

\* C28: the answer has success = true exactly when images is an array of at
\* least 10 entries whose labels total at least 20; every other answer has
\* status 400, success = false and no training id
C28_TrainModelValidation ==
    \A k \in DOMAIN output :
        LET images == input[1].images
            enough == /\ images.kind = "array"
                      /\ Len(images.items) >= 10
                      /\ totalLabels(images.items, 1) >= 20
        IN  /\ output[k].success <=> enough
            /\ ~enough => /\ output[k].status = 400
                          /\ ~output[k].success
                          /\ output[k].trainingId = <<>>

\* trainingProgress counts halves of a percent
ProgressScale == 2

\* prev + 1.5
ProgressStep == 3

\* startTraining with the images of the panel: nothing below 10 images;
\* otherwise isTraining, progress 0 and the request is sent
StartTraining ==
    /\ pc = "idle"
    /\ ~isTraining
    /\ \E n \in MinImages..MaxImages, l \in 1..MaxLabels :
         req' = [endpoint |-> "/api/train-model",
                 body |-> [images |-> [kind |-> "array",
                                       items |-> [i \in 1..n |->
                                                    [isNull |-> FALSE, labels |-> <<l>>]]]]]
    /\ isTraining' = TRUE
    /\ trainingProgress' = 0
    /\ pc' = "trainModel"
    /\ UNCHANGED <<now, locals, response, stores, log, input, output, client, serviceVars,
                   users, sessions, models, replies>>

\* the fetch settles: the server's answer, or a rejection; with success the
\* interval is set, otherwise the catch block resets the panel
TrainingSettles ==
    /\ pc = "trainModel"
    /\ \E rejects \in BOOLEAN :
         LET result == trainModel(req.body, now)
         IN  IF ~rejects /\ result.success
             THEN /\ response' = <<result>>
                  /\ pc' = "interval"
                  /\ UNCHANGED <<isTraining, trainingProgress>>
             ELSE /\ response' = IF rejects THEN <<>> ELSE <<result>>
                  /\ isTraining' = FALSE
                  /\ trainingProgress' = 0
                  /\ pc' = "idle"
    /\ UNCHANGED <<req, now, locals, stores, log, input, output, client, serviceVars,
                   users, sessions, models, replies>>

\* the interval fires after 300 ms
TrainingTick ==
    /\ pc = "interval"
    /\ IF trainingProgress >= 100 * ProgressScale
       THEN /\ trainingProgress' = 100 * ProgressScale
            /\ isTraining' = FALSE
            /\ pc' = "idle"
       ELSE /\ trainingProgress' = trainingProgress + ProgressStep
            /\ UNCHANGED <<isTraining, pc>>
    /\ UNCHANGED <<req, now, locals, response, stores, log, input, output, client,
                   serviceVars, users, sessions, models, replies>>

SpecTraining == Init /\ [][StartTraining \/ TrainingSettles \/ TrainingTick]_vars

\* C30: trainingProgress stays within 0..100 at every tick of the
\* simulated training
C30_ProgressInRange ==
    0 <= trainingProgress /\ trainingProgress <= 100 * ProgressScale

----------------------------------------------------------------------------
(* The page: every analysis ends *)

\* C29: an analysis started from the upload zone ends with isProcessing
\* false: whenever no step of processImage is pending (no fetch, no
\* response.json(), no timer), be it after a success, after every backend
\* has failed or after a malformed answer, isProcessing is false
C29_AnalysisEnds ==
    ~ENABLED (FetchSettles \/ JsonSettles \/ TimerFires) => ~client.isProcessing

====
